---------------------------- MODULE Spec2Model ----------------------------
(***************************************************************************)
(* A model of the vaultmail extraction engine: the MBOX stream splitter    *)
(* (lib/extractors/mbox.js), the PST strategy selector, readpst probe,     *)
(* reconciler and folder walker (lib/extractors/pst.js).                   *)
(*                                                                         *)
(* Text is modelled as sequences of one-character strings, so that prefix  *)
(* tests, sanitization and extension parsing are computed, not assumed.    *)
(***************************************************************************)
EXTENDS Integers, Sequences, FiniteSets, TLC

(***************************************************************************)
(* Bounds of the model                                                     *)
(***************************************************************************)
\* longest MBOX input, in lines
MaxLines == 4

(***************************************************************************)
(* State                                                                   *)
(***************************************************************************)
VARIABLES
  mSource,            \* the characters of the container file
  mInput,             \* the lines readline will deliver, in order
  mFormat,            \* options.format: "eml" or "txt"
  mPos,               \* number of 'line' events delivered so far
  rlState,            \* the line source: "open", "errored", "closed"; "crashed"
                      \* when an exception left a handler
  rlError,            \* history: the line source has emitted 'error'
  inEmail,            \* closure variable inEmail
  currentEmailLines,  \* closure variable currentEmailLines
  emailCount,         \* closure variable emailCount
  mStats,             \* this.stats.emailsExtracted
  mFiles,             \* files of the output directory: path -> content
  mEmitted,           \* history: every record handed to processEmail
  mPromise            \* the returned promise: "pending", "resolved", "rejected"

mboxVars == <<mSource, mInput, mFormat, mPos, rlState, rlError, inEmail, currentEmailLines,
              emailCount, mStats, mFiles, mEmitted, mPromise>>

VARIABLES
  skipEmpty,     \* options.skipEmpty
  maxDepth,      \* options.maxDepth
  pFormat,       \* options.format
  pTree,         \* the folder tree of the container
  pStack,        \* the activation records of processPSTFolder, innermost last
  pDirs,         \* the directories that exist
  pFiles,        \* the files that exist: path -> content
  pStats,        \* this.stats
  pLog,          \* history: the file-system calls made, in order
  pRet,          \* the value the outermost processPSTFolder returned
  pc,            \* where the call stands
  pError,        \* the error the call failed with, "none" when it has not
  fileSize,      \* fs.statSync(filePath).size
  probeSpawned,  \* checkForReadpst has spawned 'readpst -V'
  probeSeen,     \* history: the events of the probe process and its timer
  probeResult,   \* the promise of checkForReadpst: "pending", "true", "false"
  probeKilled,   \* readpst.kill() was called on the probe process
  convSpawned,   \* processLargePSTWithReadpst has spawned the converter
  convSeen,      \* history: the events of the converter process
  convPromise,   \* the promise of processLargePSTWithReadpst
  tempTree,      \* the tree the converter left in the temporary directory
  cStack         \* the activation records of convertReadpstOutput

walkVars == <<pTree, pStack, pRet>>

fsVars == <<pDirs, pFiles, pStats, pLog>>

optVars == <<skipEmpty, maxDepth, pFormat, fileSize>>

probeVars == <<probeSpawned, probeSeen, probeResult, probeKilled>>

convVars == <<convSpawned, convSeen, convPromise, tempTree, cStack>>

pstVars == <<optVars, walkVars, fsVars, pc, pError, probeVars, convVars>>

VARIABLES
  oItems,        \* the items the OLM reader has still to hand to the callbacks
  oState,        \* the OLM reader: "idle", "reading", "done", "failed"
  oStats,        \* this.stats of the OLMExtractor, by kind of item
  oWrites,       \* history: the fs.writeFileSync calls of the callbacks
  oPromise,      \* the promise returned by OLMExtractor.extract
  oPc,           \* the next statement of extract, counted in OlmSetupSteps
  oRegistered,   \* the kinds of item the reader has a callback for
  oError,        \* what the promise was rejected with, "none" if it was not
  oLog           \* history: the statements of extract run and the items the
                 \* reader delivered, in order

olmVars == <<oItems, oState, oStats, oWrites, oPromise, oPc, oRegistered, oError,
             oLog>>

VARIABLES
  xHeap,         \* the statistics objects an extractor instance has made
  xThis,         \* this.stats: the position in xHeap of the current object
  xPhase,        \* "idle" between calls of extract, "running" during one
  xCalls,        \* number of calls of extract made so far
  xWrites,       \* history: artifacts written by the running call
  xReturned      \* history: the object each resolved call returned, and the
                 \* number of artifacts that call had written

callVars == <<xHeap, xThis, xPhase, xCalls, xWrites, xReturned>>

VARIABLES
  iFile,          \* the path handed to EmailExtractor: whether it exists, its
                  \* base name, size, leading bytes, and whether it can be read
  iAttachmentDir, \* the attachmentDir argument of EmailExtractor.extract
  iEntry,         \* the method called: "detectFileType" or "extract"
  iPc,            \* "called", then "returned", "threw" or "dispatched"
  iResult,        \* the value returned or the error thrown
  iLog            \* history: file-system accesses and extractor calls, in order

idxVars == <<iFile, iAttachmentDir, iEntry, iPc, iResult, iLog>>

VARIABLES
  sName,          \* the argument of sanitizeFilename: a string or Null
  sResult,        \* what sanitizeFilename(sName) returned
  sAgain,         \* what sanitizeFilename returned for that result
  sPc,            \* "called", "once" after the first call, "twice"
  dFs,            \* a file system: what is at each path, "absent" if nothing
  dPath,          \* the argument of ensureDirectoryExistence
  dLog            \* history: the calls of ensureDirectoryExistence(dPath)

dirVars == <<dFs, dPath, dLog>>

utilVars == <<sName, sResult, sAgain, sPc, dirVars>>

VARIABLES
  eGiven,         \* the options handed to new EmailExtractor(options)
  eOptions,       \* this.options of the EmailExtractor instance
  eOverride,      \* the options argument of the last extractXxx call
  eKind,          \* the extractor that call made: "pst", "mbox" or "olm"
  eResolved,      \* this.options of the extractor that call made
  eCalls          \* number of extractXxx calls made on the instance

cfgVars == <<eGiven, eOptions, eOverride, eKind, eResolved, eCalls>>

VARIABLES
  kFiles,         \* inputFiles of the CLI: the type of each container
  kNext,          \* the position in inputFiles of the next container to start
  kRunning,       \* the positions of the extract calls that have not settled
  kLog,           \* history: containers started, resolved, failed, in order
  kExit           \* "running", "complete" at the end of main, "exit1" after
                  \* process.exit(1)

cliVars == <<kFiles, kNext, kRunning, kLog, kExit>>

VARIABLES
  vHeap,          \* the statistics objects one MboxExtractor instance has made
  vThis,          \* this.stats: the position in vHeap of the current object
  vCalls          \* the calls of extract on that instance: where each stands,
                  \* the records its container still holds, the records it
                  \* has written, and the object and count it resolved with

ovlVars == <<vHeap, vThis, vCalls>>

\* everything but the state of the PST extractor, of the MBOX extractor, of
\* the OLM extractor, of the instance called repeatedly, of the front end
notPst == <<mboxVars, olmVars, callVars, idxVars, utilVars, cfgVars, cliVars, ovlVars>>

notMbox == <<pstVars, olmVars, callVars, idxVars, utilVars, cfgVars, cliVars, ovlVars>>

notOlm == <<mboxVars, pstVars, callVars, idxVars, utilVars, cfgVars, cliVars, ovlVars>>

notCalls == <<mboxVars, pstVars, olmVars, idxVars, utilVars, cfgVars, cliVars, ovlVars>>

notIdx == <<mboxVars, pstVars, olmVars, callVars, utilVars, cfgVars, cliVars, ovlVars>>

notUtil == <<mboxVars, pstVars, olmVars, callVars, idxVars, cfgVars, cliVars, ovlVars>>

notCfg == <<mboxVars, pstVars, olmVars, callVars, idxVars, utilVars, cliVars, ovlVars>>

notCli == <<mboxVars, pstVars, olmVars, callVars, idxVars, utilVars, cfgVars, ovlVars>>

notOvl == <<mboxVars, pstVars, olmVars, callVars, idxVars, utilVars, cfgVars, cliVars>>

vars == <<mboxVars, pstVars, olmVars, callVars, idxVars, utilVars, cfgVars, cliVars, ovlVars>>

(***************************************************************************)
(* Text helpers (JavaScript string methods used by the code)               *)
(***************************************************************************)
\* the value null / undefined of a string-typed field
Null == <<"<null>">>

\* the characters matched by \s that occur in the model's alphabet
Whitespace == {" ", "\t", "\n", "\r"}

\* the character class [<>:"/\\|?*] of sanitizeFilename
ForbiddenChars == {"<", ">", ":", "\"", "/", "\\", "|", "?", "*"}

UpperAlpha == <<"A","B","C","D","E","F","G","H","I","J","K","L","M",
                "N","O","P","Q","R","S","T","U","V","W","X","Y","Z">>

LowerAlpha == <<"a","b","c","d","e","f","g","h","i","j","k","l","m",
                "n","o","p","q","r","s","t","u","v","w","x","y","z">>

DigitChars == <<"0","1","2","3","4","5","6","7","8","9">>

\* String.prototype.startsWith
StartsWith(s, p) == Len(s) >= Len(p) /\ SubSeq(s, 1, Len(p)) = p

LowerChar(c) ==
  IF \E i \in 1..Len(UpperAlpha) : UpperAlpha[i] = c
  THEN LowerAlpha[CHOOSE i \in 1..Len(UpperAlpha) : UpperAlpha[i] = c]
  ELSE c

\* String.prototype.toLowerCase
ToLowerCase(s) == [i \in 1..Len(s) |-> LowerChar(s[i])]

\* String.prototype.substring(n): the text from 0-based index n on
Substring(s, n) == IF n >= Len(s) THEN <<>> ELSE SubSeq(s, n + 1, Len(s))

RECURSIVE TrimStart(_)
TrimStart(s) ==
  IF s = <<>> THEN <<>>
  ELSE IF Head(s) \in Whitespace THEN TrimStart(Tail(s)) ELSE s

RECURSIVE TrimEnd(_)
TrimEnd(s) ==
  IF s = <<>> THEN <<>>
  ELSE IF s[Len(s)] \in Whitespace THEN TrimEnd(SubSeq(s, 1, Len(s) - 1)) ELSE s

\* String.prototype.trim
Trim(s) == TrimEnd(TrimStart(s))

RECURSIVE Join(_, _)
\* Array.prototype.join(sep)
Join(parts, sep) ==
  IF parts = <<>> THEN <<>>
  ELSE IF Len(parts) = 1 THEN parts[1]
  ELSE parts[1] \o sep \o Join(Tail(parts), sep)

RECURSIVE NumToString(_)
\* Number.prototype.toString() of a non-negative integer
NumToString(n) ==
  IF n < 10 THEN <<DigitChars[n + 1]>>
  ELSE NumToString(n \div 10) \o <<DigitChars[(n % 10) + 1]>>

RECURSIVE PadStart(_, _, _)
\* String.prototype.padStart(width, ch)
PadStart(s, width, ch) ==
  IF Len(s) >= width THEN s ELSE PadStart(<<ch>> \o s, width, ch)

\* .replace(/[<>:"/\\|?*]/g, '_')
ReplaceForbidden(s) ==
  [i \in 1..Len(s) |-> IF s[i] \in ForbiddenChars THEN "_" ELSE s[i]]

\* .replace(/\s/g, '_'): every whitespace character becomes one '_'
ReplaceEachWhitespace(s) ==
  [i \in 1..Len(s) |-> IF s[i] \in Whitespace THEN "_" ELSE s[i]]

RECURSIVE CollapseWhitespace(_)
\* .replace(/\s+/g, '_'): each maximal run of whitespace becomes one '_'
CollapseWhitespace(s) ==
  IF s = <<>> THEN <<>>
  ELSE IF Head(s) \in Whitespace
       THEN <<"_">> \o CollapseWhitespace(TrimStart(Tail(s)))
       ELSE <<Head(s)>> \o CollapseWhitespace(Tail(s))

\* sanitizeFilename (the same body in the three extractors)
sanitizeFilename(filename) ==
  IF filename = Null \/ filename = <<>>
  THEN <<"u","n","k","n","o","w","n">>
  ELSE CollapseWhitespace(ReplaceForbidden(filename))

(***************************************************************************)
(* Paths: absolute, as the sequence of their components                    *)
(***************************************************************************)
\* path.join(dir, name) for a single-component name, normalising . and ..
PathJoin(dir, name) ==
  IF name = <<".">> \/ name = <<>> THEN dir
  ELSE IF name = <<".", ".">>
       THEN (IF dir = <<>> THEN <<>> ELSE SubSeq(dir, 1, Len(dir) - 1))
       ELSE Append(dir, name)

\* the output directory handed to MboxExtractor.extract
MboxOutputDir == << <<"o","u","t">> >>

(***************************************************************************)
(* MboxExtractor                                                           *)
(***************************************************************************)
\* the record-start marker 'From '
FromMarker == <<"F","r","o","m"," ">>

\* the marker test without the trailing space
IsFromLineNoSpace(line) == StartsWith(line, <<"F","r","o","m">>)

\* line.startsWith('From ')
IsFromLine(line) == StartsWith(line, FromMarker)

\* the lines an input is made of
LineKinds ==
  { <<"F","r","o","m"," ","a">>,      \* a marker line
    <<"F","r","o","m"," ">>,          \* the bare marker
    <<"F","r","o","m",":","b">>,      \* a From: header, not a marker
    <<"T","o",":"," ","c"," ">>,      \* a To: header
    <<>> }                            \* an empty line

RECURSIVE SeqsUpTo(_, _)
\* all sequences over S of length at most n
SeqsUpTo(S, n) ==
  IF n = 0 THEN {<<>>}
  ELSE LET shorter == SeqsUpTo(S, n - 1)
       IN  shorter \cup {Append(s, x) : s \in shorter, x \in S}

\* the line terminators of a container file
Eols == { <<"\n">>, <<"\r", "\n">> }

RECURSIVE SourceOf(_, _, _)
\* the characters of a file made of the given lines, each followed by eol,
\* the last one only when the file ends with a terminator
SourceOf(lines, eol, final) ==
  IF lines = <<>> THEN <<>>
  ELSE IF Len(lines) = 1 THEN (IF final THEN lines[1] \o eol ELSE lines[1])
  ELSE lines[1] \o eol \o SourceOf(Tail(lines), eol, final)

\* the container files
MboxSources ==
  { SourceOf(lines, eol, final) :
      lines \in SeqsUpTo(LineKinds, MaxLines), eol \in Eols, final \in BOOLEAN }

RECURSIVE ScanLines(_, _, _, _)
\* readline with crlfDelay: Infinity over the characters of a stream: a line
\* ends at \r\n, at \n or at a lone \r, the terminator is not part of the
\* line, and what follows the last terminator is a line when it is not
\* empty. Each line comes with the positions it spans in the source, its
\* terminator included.
ScanLines(src, i, start, acc) ==
  IF i > Len(src)
  THEN IF start <= Len(src)
       THEN Append(acc, [text |-> SubSeq(src, start, Len(src)),
                         from |-> start, to |-> Len(src)])
       ELSE acc
  ELSE IF src[i] = "\r" /\ i < Len(src) /\ src[i + 1] = "\n"
  THEN ScanLines(src, i + 2, i + 2,
                 Append(acc, [text |-> SubSeq(src, start, i - 1),
                              from |-> start, to |-> i + 1]))
  ELSE IF src[i] = "\n" \/ src[i] = "\r"
  THEN ScanLines(src, i + 1, i + 1,
                 Append(acc, [text |-> SubSeq(src, start, i - 1),
                              from |-> start, to |-> i]))
  ELSE ScanLines(src, i + 1, start, acc)

\* the 'line' events of the readline interface over a file
ReadLines(src) ==
  LET scanned == ScanLines(src, 1, 1, <<>>)
  IN  [k \in 1..Len(scanned) |-> scanned[k].text]

\* sourceFileName.toLowerCase().replace(/\s+/g, '') of the container 'mb.mbox'
MboxFilePrefix == <<"m","b">>

\* number of leading lines scanned for headers in the txt format
HeaderScanLimit == 50

Min(a, b) == IF a < b THEN a ELSE b

RECURSIVE ScanHeader(_, _, _, _)
\* the header loop of processEmail (txt format): the last matching line of the
\* first HeaderScanLimit lines wins; hdr = [subject, from, to, date]
ScanHeader(emailLines, i, limit, hdr) ==
  IF i > limit THEN hdr
  ELSE LET line == ToLowerCase(emailLines[i])
           next ==
             IF StartsWith(line, <<"s","u","b","j","e","c","t",":">>)
             THEN [hdr EXCEPT !.subject = Trim(Substring(emailLines[i], 8))]
             ELSE IF StartsWith(line, <<"f","r","o","m",":">>)
             THEN [hdr EXCEPT !.from = Trim(Substring(emailLines[i], 5))]
             ELSE IF StartsWith(line, <<"t","o",":">>)
             THEN [hdr EXCEPT !.to = Trim(Substring(emailLines[i], 3))]
             ELSE IF StartsWith(line, <<"d","a","t","e",":">>)
             THEN [hdr EXCEPT !.date = Trim(Substring(emailLines[i], 5))]
             ELSE hdr
       IN  ScanHeader(emailLines, i + 1, limit, next)

CRLF == <<"\r", "\n">>

\* the content processEmail writes for a record
EmailFileContent(emailLines, fmt) ==
  LET emailContent == Join(emailLines, <<"\n">>)
  IN  IF fmt = "eml" THEN emailContent
      ELSE LET hdr == ScanHeader(emailLines, 1,
                        Min(Len(emailLines), HeaderScanLimit),
                        [subject |-> <<"N","o"," ","S","u","b","j","e","c","t">>,
                         from |-> <<"U","n","k","n","o","w","n">>,
                         to |-> <<"U","n","k","n","o","w","n">>,
                         date |-> <<"<now>">>])
           IN  <<"D","a","t","e",":"," ">> \o hdr.date \o CRLF
               \o <<"F","r","o","m",":"," ">> \o hdr.from \o CRLF
               \o <<"T","o",":"," ">> \o hdr.to \o CRLF
               \o <<"S","u","b","j","e","c","t",":"," ">> \o hdr.subject
               \o CRLF \o CRLF \o emailContent

FormatExt(fmt) == IF fmt = "eml" THEN <<"e","m","l">> ELSE <<"t","x","t">>

\* path.join(outputDir, `${filename}.${format}`) of record number n
EmailFilePath(n, fmt) ==
  PathJoin(MboxOutputDir,
           sanitizeFilename(MboxFilePrefix \o <<"-">>
                            \o PadStart(NumToString(n), 4, "0")
                            \o <<"-","e","m","a","i","l">>)
           \o <<".">> \o FormatExt(fmt))

\* a file system after writeFileSync(path, content)
WriteFile(files, path, content) ==
  [p \in (DOMAIN files) \cup {path} |-> IF p = path THEN content ELSE files[p]]

\* processEmail with the write outside its try/catch: the error escapes
ProcessEmailUncaught(emailLines, writeOk) ==
  [emailCount |-> emailCount + 1,
   emitted |-> Append(mEmitted, [num |-> emailCount + 1, lines |-> emailLines,
                                 written |-> writeOk, at |-> mPos]),
   files |-> IF writeOk
             THEN WriteFile(mFiles, EmailFilePath(emailCount + 1, mFormat),
                            EmailFileContent(emailLines, mFormat))
             ELSE mFiles,
   stats |-> IF writeOk THEN mStats + 1 ELSE mStats,
   threw |-> ~writeOk]

\* processEmail numbering the records by the writes that succeeded
ProcessEmailCountsWritten(emailLines, writeOk) ==
  [emailCount |-> IF writeOk THEN emailCount + 1 ELSE emailCount,
   emitted |-> Append(mEmitted, [num |-> emailCount + 1, lines |-> emailLines,
                                 written |-> writeOk, at |-> mPos]),
   files |-> IF writeOk
             THEN WriteFile(mFiles, EmailFilePath(emailCount + 1, mFormat),
                            EmailFileContent(emailLines, mFormat))
             ELSE mFiles,
   stats |-> IF writeOk THEN mStats + 1 ELSE mStats,
   threw |-> FALSE]

\* processEmail(emailLines) for a non-empty record: the values of the closure
\* variables, the statistics and the output directory when it returns, and
\* whether an exception leaves it. writeOk tells whether fs.writeFileSync
\* returns (TRUE) or throws (FALSE): the throw is caught inside and at most
\* logged, the counter is incremented only after the write.
ProcessEmail(emailLines, writeOk) ==
  [emailCount |-> emailCount + 1,
   emitted |-> Append(mEmitted, [num |-> emailCount + 1, lines |-> emailLines,
                                 written |-> writeOk, at |-> mPos]),
   files |-> IF writeOk
             THEN WriteFile(mFiles, EmailFilePath(emailCount + 1, mFormat),
                            EmailFileContent(emailLines, mFormat))
             ELSE mFiles,
   stats |-> IF writeOk THEN mStats + 1 ELSE mStats,
   threw |-> FALSE]

\* the assignments a call of processEmail leaves behind
ApplyProcessEmail(r) ==
  /\ emailCount' = r.emailCount
  /\ mEmitted' = r.emitted
  /\ mFiles' = r.files
  /\ mStats' = r.stats

\* a last branch that keeps every line
KeepsEveryLine(inE) == TRUE

\* the test of the last branch of the 'line' handler: a line that is no
\* marker is kept only inside a record
KeepsLine(inE) == inE

\* a buffer that keeps the lines of the record just handed over
StartRecordKeeping(buffer, line) == Append(buffer, line)

\* currentEmailLines = [line]: the buffer of the record a marker line opens
StartRecord(buffer, line) == <<line>>

\* a first marker line that leaves the splitter outside a message
AfterFirstMarkerOutside(inE) == inE

\* inEmail = true, at the first marker line
AfterFirstMarker(inE) == TRUE

\* rl.on('line', ...). An exception leaving the handler would be an uncaught
\* exception of the event emitter: the process dies with the promise pending.
MboxLine ==
  /\ rlState = "open"
  /\ mPos < Len(mInput)
  /\ LET line == mInput[mPos + 1]
     IN  /\ mPos' = mPos + 1
         /\ IF IsFromLine(line) /\ inEmail
            THEN \E writeOk \in BOOLEAN :
                   LET r == ProcessEmail(currentEmailLines, writeOk)
                   IN  /\ ApplyProcessEmail(r)
                       /\ IF r.threw
                          THEN /\ rlState' = "crashed"
                               /\ UNCHANGED currentEmailLines
                          ELSE /\ currentEmailLines' = StartRecord(currentEmailLines, line)
                               /\ UNCHANGED rlState
                       /\ UNCHANGED inEmail
            ELSE IF IsFromLine(line) /\ ~inEmail
            THEN /\ inEmail' = AfterFirstMarker(inEmail)
                 /\ currentEmailLines' = StartRecord(currentEmailLines, line)
                 /\ UNCHANGED <<emailCount, mEmitted, mFiles, mStats, rlState>>
            ELSE IF KeepsLine(inEmail)
            THEN /\ currentEmailLines' = Append(currentEmailLines, line)
                 /\ UNCHANGED <<inEmail, emailCount, mEmitted, mFiles, mStats, rlState>>
            ELSE UNCHANGED <<inEmail, currentEmailLines, emailCount, mEmitted,
                             mFiles, mStats, rlState>>
  /\ UNCHANGED <<mSource, mInput, mFormat, mPromise, rlError>>
  /\ UNCHANGED notMbox

\* settling a promise: only the first resolve/reject has an effect
Settle(p, outcome) == IF p = "pending" THEN outcome ELSE p

\* rl.on('close', ...): end of input, or the source closing after an error
MboxClose ==
  /\ \/ rlState = "open" /\ mPos = Len(mInput)
     \/ rlState = "errored"
  /\ rlState' = "closed"
  /\ IF Len(currentEmailLines) > 0
     THEN \E writeOk \in BOOLEAN :
            LET r == ProcessEmail(currentEmailLines, writeOk)
            IN  /\ ApplyProcessEmail(r)
                /\ mPromise' = Settle(mPromise, IF r.threw THEN "rejected" ELSE "resolved")
     ELSE /\ mPromise' = Settle(mPromise, "resolved")
          /\ UNCHANGED <<emailCount, mEmitted, mFiles, mStats>>
  /\ UNCHANGED <<mSource, mInput, mFormat, mPos, inEmail, currentEmailLines, rlError>>
  /\ UNCHANGED notMbox

\* an 'error' handler that lets the error pass without rejecting
MboxErrorSwallowed ==
  /\ rlState = "open"
  /\ rlState' = "errored"
  /\ rlError' = TRUE
  /\ UNCHANGED <<mSource, mInput, mFormat, mPos, inEmail, currentEmailLines, emailCount,
                 mStats, mFiles, mEmitted, mPromise>>
  /\ UNCHANGED notMbox

\* rl.on('error', ...)
MboxError ==
  /\ rlState = "open"
  /\ rlState' = "errored"
  /\ rlError' = TRUE
  /\ mPromise' = Settle(mPromise, "rejected")
  /\ UNCHANGED <<mSource, mInput, mFormat, mPos, inEmail, currentEmailLines, emailCount,
                 mStats, mFiles, mEmitted>>
  /\ UNCHANGED notMbox

\* the state right after extract() has registered its handlers
MboxInit ==
  /\ mSource \in MboxSources
  /\ mInput = ReadLines(mSource)
  /\ mFormat \in {"eml", "txt"}
  /\ mPos = 0
  /\ rlState = "open"
  /\ rlError = FALSE
  /\ inEmail = FALSE
  /\ currentEmailLines = <<>>
  /\ emailCount = 0
  /\ mStats = 0
  /\ mFiles = << >>
  /\ mEmitted = <<>>
  /\ mPromise = "pending"

MboxNext == MboxLine \/ MboxClose \/ MboxError

(***************************************************************************)
(* PSTExtractor: the folder tree handed over by the parser                 *)
(***************************************************************************)
\* largest number of items in one folder tree
MaxItems == 2

\* String.prototype.includes
Includes(s, sub) ==
  \E i \in 0..(Len(s) - Len(sub)) : SubSeq(s, i + 1, i + Len(sub)) = sub

\* the output and attachment directories handed to extract
OutputDir == << <<"b">>, <<"o","u","t">> >>

AttachmentDir == << <<"b">>, <<"a","t","t">> >>

\* sourceFileName.toLowerCase().replace(/\s+/g, '') of the container 'pf.pst'
PstFilePrefix == <<"p","f">>

\* message classes of the items a folder yields
MessageClassOf(kind) ==
  CASE kind = "mail" -> <<"I","P","M",".","N","o","t","e">>
    [] kind = "mailAtt" -> Null
    [] kind = "contact" -> <<"I","P","M",".","C","o","n","t","a","c","t">>
    [] kind = "task" -> <<"I","P","M",".","T","a","s","k">>

\* the attachments of an item: one with a stream, one without a file name
AttachmentsOf(kind) ==
  IF kind = "mailAtt"
  THEN << [filename |-> <<"f"," ","1">>, stream |-> TRUE],
          [filename |-> Null, stream |-> TRUE] >>
  ELSE <<>>

ItemKinds == {"mail", "mailAtt", "contact", "task"}

\* the PSTMessage the parser yields as item idx of folder node
MkItem(kind, node, idx) ==
  [messageClass |-> MessageClassOf(kind),
   descriptorNodeId |-> 10 * node + idx,
   attachments |-> AttachmentsOf(kind)]

\* folder hierarchies: TreeShapes[k][n] is the parent of folder n (0: the root)
TreeShapes == { <<0>>, <<0, 1>>, <<0, 1, 1>>, <<0, 1, 2>> }

\* display names of the folders 1, 2, 3: the root folder of a store has an
\* empty display name
FolderNameSchemes ==
  { << <<>>, <<"I","n">>, <<"S"," ","x">> >>,
    << <<"T">>, <<"I","n">>, <<"I","n">> >> }

RECURSIVE SumLen(_)
SumLen(lists) == IF lists = <<>> THEN 0 ELSE Len(Head(lists)) + SumLen(Tail(lists))

\* the ways to give the folders of a shape at most MaxItems items in all
ItemKindsOf(shape) ==
  {k \in [1..Len(shape) -> SeqsUpTo(ItemKinds, MaxItems)] : SumLen(k) <= MaxItems}

\* the folder trees a container may hold
Trees(shapes, schemes) ==
  UNION { { [parent |-> shape,
             names |-> SubSeq(scheme, 1, Len(shape)),
             items |-> [n \in 1..Len(shape) |->
                          [i \in 1..Len(kinds[n]) |-> MkItem(kinds[n][i], n, i)]]] :
            scheme \in schemes, kinds \in ItemKindsOf(shape) } :
          shape \in shapes }

NoTree == [parent |-> <<>>, names |-> <<>>, items |-> <<>>]

\* folder.getSubFolders(): the children of folder n, in order
SubFolders(tree, n) ==
  LET idx == {i \in 1..Len(tree.parent) : tree.parent[i] = n}
      RECURSIVE Sorted(_)
      Sorted(S) == IF S = {} THEN <<>>
                   ELSE LET m == CHOOSE x \in S : \A y \in S : x <= y
                        IN  <<m>> \o Sorted(S \ {m})
  IN  Sorted(idx)

\* folder.contentCount
ContentCount(tree, n) == Len(tree.items[n])

\* the classification of processPSTFolder: an item is kept as mail unless its
\* lower-cased message class contains ipm.contact, ipm.appointment or ipm.task
IsMail(item) ==
  LET messageClass == IF item.messageClass = Null \/ item.messageClass = <<>>
                      THEN <<>> ELSE ToLowerCase(item.messageClass)
  IN  /\ ~Includes(messageClass, <<"i","p","m",".","c","o","n","t","a","c","t">>)
      /\ ~Includes(messageClass,
                   <<"i","p","m",".","a","p","p","o","i","n","t","m","e","n","t">>)
      /\ ~Includes(messageClass, <<"i","p","m",".","t","a","s","k">>)

SelectMail(items) == SelectSeq(items, IsMail)

\* all non-empty prefixes of a path
Prefixes(path) == {SubSeq(path, 1, k) : k \in 1..Len(path)}

\* a creation that makes the named directory alone
EnsureDirShallow(dirs, path) == dirs \cup {path}

\* the directories after ensureDirectoryExistence(path): mkdirSync with
\* recursive: true, issued only when the path does not exist
EnsureDir(dirs, path) == IF path \in dirs THEN dirs ELSE dirs \cup Prefixes(path)

\* folderPath of an activation record
FolderPath(fr) == PathJoin(fr.outDir, sanitizeFilename(pTree.names[fr.node]))

\* path.dirname
Dirname(path) == SubSeq(path, 1, Len(path) - 1)

\* saveEmail: the path of the message file
SavedEmailPath(email, emailDir) ==
  PathJoin(emailDir,
           sanitizeFilename(PstFilePrefix \o <<"-">> \o NumToString(email.descriptorNodeId))
           \o <<".">> \o FormatExt(pFormat))

\* saveAttachment: the path of the attachment file
SavedAttachmentPath(attachment, emailId) ==
  PathJoin(AttachmentDir,
           NumToString(emailId) \o <<"-">> \o sanitizeFilename(attachment.filename))

Top == pStack[Len(pStack)]

\* the stack with its innermost record replaced
WithTop(fr) == [pStack EXCEPT ![Len(pStack)] = fr]

NewFrame(node, outDir, depth) ==
  [node |-> node, outDir |-> outDir, depth |-> depth, phase |-> "enter",
   emails |-> <<>>, ei |-> 0, ai |-> 0, hasEmails |-> FALSE,
   hasSubfolderContent |-> FALSE, ci |-> 0]

\* where a finished or failed processPSTFolder leaves the call
AfterWalk(threw) ==
  IF threw THEN (IF pc = "walking" THEN "rejected" ELSE "threw")
  ELSE (IF pc = "walking" THEN "resolved" ELSE "returned")

\* a return of the innermost processPSTFolder with value ret: the caller
\* ORs it into hasSubfolderContent and goes on to the next subfolder
ReturnFrom(ret, stack) ==
  IF Len(stack) = 1
  THEN /\ pStack' = <<>>
       /\ pRet' = ret
       /\ pc' = AfterWalk(FALSE)
       /\ UNCHANGED pError
  ELSE LET caller == stack[Len(stack) - 1]
       IN  /\ pStack' = [SubSeq(stack, 1, Len(stack) - 1) EXCEPT ![Len(stack) - 1] =
                           [caller EXCEPT !.hasSubfolderContent = caller.hasSubfolderContent \/ ret,
                                          !.ci = caller.ci + 1]]
           /\ UNCHANGED <<pRet, pc, pError>>

\* an exception leaves processPSTFolder: nothing on the way up catches it
Throw ==
  /\ pStack' = <<>>
  /\ pc' = AfterWalk(TRUE)
  /\ pError' = "write"
  /\ UNCHANGED pRet

Walking == pc \in {"walking", "called"} /\ pStack # <<>>

\* a depth test that lets one more level through
BeyondMaxDepthLate(depth) == maxDepth # -1 /\ depth > maxDepth + 1

\* the depth test of processPSTFolder
BeyondMaxDepth(depth) == maxDepth # -1 /\ depth > maxDepth

\* the test that creates the folder's directory before its messages are saved
CreatesOwnDir(emails) == Len(emails) > 0 \/ ~skipEmpty

\* processPSTFolder, from its entry to the first message: the depth test, the
\* folder counter, the enumeration and classification of the items, and the
\* creation of the folder's directory
WalkEnter ==
  /\ Walking
  /\ Top.phase = "enter"
  /\ IF BeyondMaxDepth(Top.depth)
     THEN /\ ReturnFrom(FALSE, pStack)
          /\ UNCHANGED <<pDirs, pStats, pLog>>
     ELSE LET emails == IF ContentCount(pTree, Top.node) > 0
                        THEN SelectMail(pTree.items[Top.node]) ELSE <<>>
              creates == ContentCount(pTree, Top.node) > 0 /\ CreatesOwnDir(emails)
          IN  /\ pStats' = [pStats EXCEPT !.foldersProcessed = @ + 1]
              /\ pStack' = WithTop([Top EXCEPT
                             !.emails = emails,
                             !.hasEmails = Len(emails) > 0,
                             !.phase = IF creates THEN "emails" ELSE "subfolders",
                             !.ei = 1, !.ai = 0, !.ci = 1])
              /\ IF creates
                 THEN /\ pDirs' = EnsureDir(pDirs, FolderPath(Top))
                      /\ pLog' = Append(pLog, [op |-> "ensure", node |-> Top.node,
                                               path |-> FolderPath(Top)])
                 ELSE UNCHANGED <<pDirs, pLog>>
              /\ UNCHANGED <<pRet, pc, pError>>
  /\ UNCHANGED <<optVars, pTree, pFiles, probeVars, convVars>>
  /\ UNCHANGED notPst

\* saveEmail for the next message of the folder; fs.writeFileSync throws when
\* the directory is missing, and may throw otherwise
WalkSaveEmail ==
  /\ Walking
  /\ Top.phase = "emails" /\ Top.ei <= Len(Top.emails) /\ Top.ai = 0
  /\ LET email == Top.emails[Top.ei]
         path == SavedEmailPath(email, FolderPath(Top))
     IN  \E writeOk \in (IF Dirname(path) \in pDirs THEN BOOLEAN ELSE {FALSE}) :
           /\ pLog' = Append(pLog, [op |-> "write", node |-> Top.node, path |-> path,
                                    ok |-> writeOk])
           /\ IF writeOk
              THEN /\ pFiles' = WriteFile(pFiles, path, <<pFormat, email.descriptorNodeId>>)
                   /\ pStats' = [pStats EXCEPT !.emailsExtracted = @ + 1]
                   /\ pStack' = WithTop([Top EXCEPT !.ai = 1])
                   /\ UNCHANGED <<pRet, pc, pError>>
              ELSE /\ Throw
                   /\ UNCHANGED <<pFiles, pStats>>
  /\ UNCHANGED <<optVars, pTree, pDirs, probeVars, convVars>>
  /\ UNCHANGED notPst

\* one round of the attachment loop of the current message, or its end
WalkAttachment ==
  /\ Walking
  /\ Top.phase = "emails" /\ Top.ei <= Len(Top.emails) /\ Top.ai >= 1
  /\ LET email == Top.emails[Top.ei]
     IN  IF Top.ai > Len(email.attachments)
         THEN /\ pStack' = WithTop([Top EXCEPT !.ei = @ + 1, !.ai = 0])
              /\ UNCHANGED <<pFiles, pStats, pLog, pRet, pc, pError>>
         ELSE LET attachment == email.attachments[Top.ai]
                  path == SavedAttachmentPath(attachment, email.descriptorNodeId)
              IN  IF attachment.filename # Null /\ attachment.filename # <<>>
                     /\ attachment.stream
                  THEN \E writeOk \in (IF Dirname(path) \in pDirs THEN BOOLEAN ELSE {FALSE}) :
                         /\ pLog' = Append(pLog, [op |-> "attach", node |-> Top.node,
                                                  path |-> path, ok |-> writeOk])
                         /\ IF writeOk
                            THEN /\ pFiles' = WriteFile(pFiles, path,
                                                <<"attachment", email.descriptorNodeId>>)
                                 /\ pStats' = [pStats EXCEPT !.attachmentsExtracted = @ + 1]
                                 /\ pStack' = WithTop([Top EXCEPT !.ai = @ + 1])
                                 /\ UNCHANGED <<pRet, pc, pError>>
                            ELSE /\ Throw
                                 /\ UNCHANGED <<pFiles, pStats>>
                  ELSE /\ pStack' = WithTop([Top EXCEPT !.ai = @ + 1])
                       /\ UNCHANGED <<pFiles, pStats, pLog, pRet, pc, pError>>
  /\ UNCHANGED <<optVars, pTree, pDirs, probeVars, convVars>>
  /\ UNCHANGED notPst

\* the end of emails.forEach
WalkEmailsDone ==
  /\ Walking
  /\ Top.phase = "emails" /\ Top.ei > Len(Top.emails)
  /\ pStack' = WithTop([Top EXCEPT !.phase = "subfolders"])
  /\ UNCHANGED <<optVars, pTree, fsVars, pRet, pc, pError, probeVars, convVars>>
  /\ UNCHANGED notPst

\* the recursive call for the next subfolder
WalkDescend ==
  /\ Walking
  /\ Top.phase = "subfolders"
  /\ Top.ci <= Len(SubFolders(pTree, Top.node))
  /\ pStack' = Append(pStack, NewFrame(SubFolders(pTree, Top.node)[Top.ci],
                                       FolderPath(Top), Top.depth + 1))
  /\ UNCHANGED <<optVars, pTree, fsVars, pRet, pc, pError, probeVars, convVars>>
  /\ UNCHANGED notPst

\* the test that creates the directory of a folder without messages of its own
CreatesDirForSubfolders(fr) == fr.hasSubfolderContent /\ ~fr.hasEmails /\ skipEmpty

\* a return value that reports the folder's own messages alone
ReturnValueOwnOnly(fr, hasSubfolders) == fr.hasEmails

\* the value processPSTFolder returns from a folder it has processed
ReturnValue(fr, hasSubfolders) ==
  IF hasSubfolders THEN fr.hasEmails \/ fr.hasSubfolderContent ELSE fr.hasEmails

\* the end of processPSTFolder: the directory for content-bearing subfolders
\* and the return value
WalkReturn ==
  /\ Walking
  /\ Top.phase = "subfolders"
  /\ Top.ci > Len(SubFolders(pTree, Top.node))
  /\ IF SubFolders(pTree, Top.node) # <<>>
     THEN IF CreatesDirForSubfolders(Top)
          THEN /\ pDirs' = EnsureDir(pDirs, FolderPath(Top))
               /\ pLog' = Append(pLog, [op |-> "ensure", node |-> Top.node,
                                        path |-> FolderPath(Top)])
          ELSE UNCHANGED <<pDirs, pLog>>
     ELSE UNCHANGED <<pDirs, pLog>>
  /\ ReturnFrom(ReturnValue(Top, SubFolders(pTree, Top.node) # <<>>), pStack)
  /\ UNCHANGED <<optVars, pTree, pFiles, pStats, probeVars, convVars>>
  /\ UNCHANGED notPst

WalkNext ==
  \/ WalkEnter
  \/ WalkSaveEmail
  \/ WalkAttachment
  \/ WalkEmailsDone
  \/ WalkDescend
  \/ WalkReturn

(***************************************************************************)
(* PSTExtractor: the tree the external converter leaves behind             *)
(***************************************************************************)
\* largest number of files in one converter output tree
MaxTempFiles == 4

\* names of the files the converter writes, in directory-listing order
FileNameOrder ==
  << <<".","e","m","l">>,
     <<"a",".","e","m","l">>,
     <<"b",".","V","C","F">>,
     <<"c",".","i","c","s">>,
     <<"d",".","d","a","t">> >>

FileNames == {FileNameOrder[i] : i \in 1..Len(FileNameOrder)}

\* directory hierarchies of the output: TempShapes[k][n] is the parent of
\* directory n (0: the temporary directory itself)
TempShapes == { <<0>>, <<0, 1>>, <<0, 1, 1>>, <<0, 1, 2>> }

\* names of the directories 1, 2, 3 (the name of directory 1 is not used)
TempDirNames == << <<>>, <<"s">>, <<"t">> >>

\* the members of a set of file names, in listing order
Listing(names) ==
  LET In(x) == x \in names IN SelectSeq(FileNameOrder, In)

RECURSIVE SumCard(_, _)
SumCard(f, n) == IF n = 0 THEN 0 ELSE Cardinality(f[n]) + SumCard(f, n - 1)

\* the output trees with the given shapes and at most MaxTempFiles files
TempTrees(shapes) ==
  UNION { { [parent |-> shape,
             names |-> SubSeq(TempDirNames, 1, Len(shape)),
             files |-> [n \in 1..Len(shape) |-> Listing(k[n])]] :
            k \in {f \in [1..Len(shape) -> SUBSET FileNames] :
                     SumCard(f, Len(shape)) <= MaxTempFiles} } :
          shape \in shapes }

\* path.join(outputDir, 'readpst_temp')
TempDir == PathJoin(OutputDir, <<"r","e","a","d","p","s","t","_","t","e","m","p">>)

\* the path of directory n of the converter's output
RECURSIVE TempPath(_, _)
TempPath(tree, n) ==
  IF tree.parent[n] = 0 THEN TempDir
  ELSE PathJoin(TempPath(tree, tree.parent[n]), tree.names[n])

\* the directories and files of the converter's output
TempDirsOf(tree) == UNION {Prefixes(TempPath(tree, n)) : n \in 1..Len(tree.parent)}

TempFilesOf(tree) ==
  UNION { {PathJoin(TempPath(tree, n), tree.files[n][i]) : i \in 1..Len(tree.files[n])} :
          n \in 1..Len(tree.parent) }

\* the file system after the converter has written its output
WithTempTree(files, tree) ==
  [q \in (DOMAIN files) \cup TempFilesOf(tree) |->
     IF q \in TempFilesOf(tree) THEN <<"readpst", q>> ELSE files[q]]

\* fs.readdirSync(dir, { withFileTypes: true }) of directory n
ReadDir(tree, n) ==
  [i \in 1..Len(tree.files[n]) |-> [kind |-> "file", name |-> tree.files[n][i], node |-> 0]]
  \o LET sub == SubFolders(tree, n)
     IN  [i \in 1..Len(sub) |-> [kind |-> "dir", name |-> tree.names[sub[i]], node |-> sub[i]]]

\* position of the last '.' of a name, 0 when there is none
LastDot(name) ==
  LET dots == {i \in 1..Len(name) : name[i] = "."}
  IN  IF dots = {} THEN 0 ELSE CHOOSE i \in dots : \A j \in dots : j <= i

\* path.extname of a file name: from the last '.' on; empty when there is no
\* '.', when the only '.' leads the name, and for '..'
Extname(name) ==
  IF LastDot(name) <= 1 \/ name = <<".", ".">> THEN <<>>
  ELSE SubSeq(name, LastDot(name), Len(name))

\* the branch taken when the extension is compared as written
ExtKindCaseSensitive(name) ==
  LET ext == Extname(name)
  IN  IF ext = <<".","e","m","l">> THEN "eml"
      ELSE IF ext = <<".","v","c","f">> THEN "vcf"
      ELSE IF ext = <<".","i","c","s">> THEN "ics"
      ELSE "other"

\* the branch of convertReadpstOutput a file takes
ExtKind(name) ==
  LET ext == ToLowerCase(Extname(name))
  IN  IF ext = <<".","e","m","l">> THEN "eml"
      ELSE IF ext = <<".","v","c","f">> THEN "vcf"
      ELSE IF ext = <<".","i","c","s">> THEN "ics"
      ELSE "other"

\* the directory convertReadpstOutput copies a file of that branch into
DestDir(kind, outDir) ==
  CASE kind = "eml" -> outDir
    [] kind = "vcf" -> PathJoin(outDir, <<"c","o","n","t","a","c","t","s">>)
    [] kind = "ics" -> PathJoin(outDir, <<"c","a","l","e","n","d","a","r">>)
    [] OTHER -> AttachmentDir

\* the counters after a copied file, counted on a fresh statistics object
CountCopyFromZero(stats, kind) ==
  CASE kind = "eml" ->
         [foldersProcessed |-> 0, emailsExtracted |-> 1, attachmentsExtracted |-> 0]
    [] kind = "other" ->
         [foldersProcessed |-> 0, emailsExtracted |-> 0, attachmentsExtracted |-> 1]
    [] OTHER ->
         [foldersProcessed |-> 0, emailsExtracted |-> 0, attachmentsExtracted |-> 0]

\* the counters after a file of that branch has been copied
CountCopy(stats, kind) ==
  CASE kind = "eml" -> [stats EXCEPT !.emailsExtracted = @ + 1]
    [] kind = "other" -> [stats EXCEPT !.attachmentsExtracted = @ + 1]
    [] OTHER -> stats

CTop == cStack[Len(cStack)]

NewConvFrame(node, srcDir, outDir) ==
  [entries |-> ReadDir(tempTree, node), srcDir |-> srcDir, outDir |-> outDir]

Reconciling == pc \in {"reconciling", "convCalled"} /\ cStack # <<>>

\* convertReadpstOutput, one directory entry: a file is copied into the
\* directory of its branch (created first for contacts and calendar) and
\* counted; a directory is mirrored and entered. fs.copyFileSync throws when
\* the destination directory is missing, and may throw otherwise; nothing
\* catches it, so the promise of the 'close' handler rejects and the promise
\* of processLargePSTWithReadpst stays pending.
ConvEntry ==
  /\ Reconciling
  /\ CTop.entries # <<>>
  /\ LET e == Head(CTop.entries)
         rest == [cStack EXCEPT ![Len(cStack)].entries = Tail(@)]
     IN  IF e.kind = "file"
         THEN LET kind == ExtKind(e.name)
                  destDir == DestDir(kind, CTop.outDir)
                  dirs == IF kind \in {"vcf", "ics"} THEN EnsureDir(pDirs, destDir) ELSE pDirs
                  src == PathJoin(CTop.srcDir, e.name)
                  dest == PathJoin(destDir, e.name)
              IN  \E copyOk \in (IF destDir \in dirs /\ src \in DOMAIN pFiles
                                 THEN BOOLEAN ELSE {FALSE}) :
                    /\ pDirs' = dirs
                    /\ pLog' = Append(pLog, [op |-> "copy", node |-> 0, path |-> dest,
                                             src |-> src, ok |-> copyOk])
                    /\ IF copyOk
                       THEN /\ pFiles' = WriteFile(pFiles, dest, pFiles[src])
                            /\ pStats' = CountCopy(pStats, kind)
                            /\ cStack' = rest
                            /\ UNCHANGED <<pc, pError>>
                       ELSE /\ cStack' = <<>>
                            /\ pc' = IF pc = "reconciling" THEN "hung" ELSE "convThrew"
                            /\ pError' = "copy"
                            /\ UNCHANGED <<pFiles, pStats>>
         ELSE LET subDir == PathJoin(CTop.srcDir, e.name)
                  subOutputDir == PathJoin(CTop.outDir, e.name)
              IN  /\ pDirs' = EnsureDir(pDirs, subOutputDir)
                  /\ pLog' = Append(pLog, [op |-> "ensure", node |-> 0, path |-> subOutputDir])
                  /\ cStack' = Append(rest, NewConvFrame(e.node, subDir, subOutputDir))
                  /\ UNCHANGED <<pFiles, pStats, pc, pError>>
  /\ UNCHANGED <<optVars, walkVars, probeVars, convSpawned, convSeen, convPromise, tempTree>>
  /\ UNCHANGED notPst

\* convertReadpstOutput returns from a directory; the return from the
\* temporary directory lets the 'close' handler resolve the promise of
\* processLargePSTWithReadpst, and extract return the statistics
ConvReturn ==
  /\ Reconciling
  /\ CTop.entries = <<>>
  /\ cStack' = SubSeq(cStack, 1, Len(cStack) - 1)
  /\ IF Len(cStack) = 1
     THEN IF pc = "reconciling"
          THEN /\ convPromise' = Settle(convPromise, "resolved")
               /\ pc' = IF convPromise = "pending" THEN "resolved" ELSE pc
          ELSE /\ pc' = "convReturned"
               /\ UNCHANGED convPromise
     ELSE UNCHANGED <<pc, convPromise>>
  /\ UNCHANGED <<optVars, walkVars, fsVars, pError, probeVars, convSpawned, convSeen, tempTree>>
  /\ UNCHANGED notPst

ConvNext == ConvEntry \/ ConvReturn

NoTempTree == [parent |-> <<>>, names |-> <<>>, files |-> <<>>]

\* no probe and no converter process
ProbeIdle ==
  /\ probeSpawned = FALSE /\ probeSeen = <<>> /\ probeResult = "pending"
  /\ probeKilled = FALSE

ConvIdle ==
  /\ convSpawned = FALSE /\ convSeen = <<>> /\ convPromise = "pending"
  /\ tempTree = NoTempTree /\ cStack = <<>>

ZeroStats == [foldersProcessed |-> 0, emailsExtracted |-> 0, attachmentsExtracted |-> 0]

(***************************************************************************)
(* PSTExtractor.extract: the choice of strategy                            *)
(***************************************************************************)
\* 1024 * 1024 * 1024: file sizes are written hi * GiB + lo, 0 <= lo < GiB
GiB == 1024 * 1024 * 1024

Size(hi, lo) == [hi |-> hi, lo |-> lo]

\* a > b for two sizes
SizeGreater(a, b) == a.hi > b.hi \/ (a.hi = b.hi /\ a.lo > b.lo)

\* 2 * 1024 * 1024 * 1024
Threshold == Size(2, 0)

\* the sizes around the threshold: 2 GiB - 1, 2 GiB, 2 GiB + 1
FileSizes == {Size(1, GiB - 1), Size(2, 0), Size(2, 1)}

\* the strategy test with the threshold itself counted as large
IsLargeInclusive(size) == ~SizeGreater(Threshold, size)

\* the strategy test answering yes for every size
IsLargeAlways(size) == size \in FileSizes

\* fileStats.size > 2 * 1024 * 1024 * 1024
IsLarge(size) == SizeGreater(size, Threshold)

\* fileStats.size <= 2 * 1024 * 1024 * 1024: the container is read into memory
ReadsIntoBuffer(size) == ~SizeGreater(size, Threshold)

\* exit codes of a child process: success and failure
ExitCodes == {0, 1}

\* the code field of an event that carries none
NoCode == -1

Event(ev, code) == [ev |-> ev, code |-> code]

\* an event of that kind is among those seen
Seen(events, ev) == \E i \in 1..Len(events) : events[i].ev = ev

\* extract is inside a stretch that runs to completion: the walker, and the
\* reconciler with the continuations behind it, yield to no timer and no
\* process event
Busy == pc \in {"walking", "reconciling"}

\* the folder trees the in-process parser may find in the container
ExtractTrees == Trees({<<0>>, <<0, 1>>}, { << <<>>, <<"I","n">> >> })

\* the names of the files the converter may leave behind in an extraction
ExtractFileNames == { <<"a",".","e","m","l">>, <<"d",".","d","a","t">> }

\* the trees the converter may leave behind in an extraction
ExtractTempTrees ==
  {t \in TempTrees({<<0>>, <<0, 1>>}) :
     \A n \in 1..Len(t.files) : \A i \in 1..Len(t.files[n]) : t.files[n][i] \in ExtractFileNames}

\* statistics left over from an earlier call
StaleStats == [foldersProcessed |-> 1, emailsExtracted |-> 1, attachmentsExtracted |-> 1]

\* the in-process part of extract: new PSTFile over a buffer or over the
\* path, which may throw, then getRootFolder and the walk from the root
StartInProcess(log) ==
  \E parsed \in ExtractTrees \cup {NoTree} :
    /\ pLog' = Append(log, [op |-> "parse", node |-> 0, path |-> <<>>,
                            mode |-> IF ReadsIntoBuffer(fileSize) THEN "buffer" ELSE "path"])
    /\ IF parsed = NoTree
       THEN /\ pc' = "rejected"
            /\ pError' = "parse"
            /\ UNCHANGED <<pTree, pStack>>
       ELSE /\ pTree' = parsed
            /\ pStack' = <<NewFrame(1, OutputDir, 0)>>
            /\ pc' = "walking"
            /\ UNCHANGED pError

\* extract up to its first await: the statistics are reset, the two output
\* directories created, the size taken; a large container has the probe
\* spawned, any other goes straight to the in-process part
ExtractCall ==
  /\ pc = "ready"
  /\ pStats' = ZeroStats
  /\ pDirs' = EnsureDir(EnsureDir(pDirs, OutputDir), AttachmentDir)
  /\ LET log == pLog \o <<[op |-> "ensure", node |-> 0, path |-> OutputDir],
                          [op |-> "ensure", node |-> 0, path |-> AttachmentDir]>>
     IN  \E statOk \in BOOLEAN :
           IF ~statOk
           THEN /\ pc' = "rejected"
                /\ pError' = "stat"
                /\ pLog' = log
                /\ UNCHANGED <<pTree, pStack, probeSpawned>>
           ELSE IF IsLarge(fileSize)
           THEN /\ probeSpawned' = TRUE
                /\ pc' = "probe"
                /\ pLog' = log
                /\ UNCHANGED <<pTree, pStack, pError>>
           ELSE /\ StartInProcess(log)
                /\ UNCHANGED probeSpawned
  /\ UNCHANGED <<optVars, pRet, pFiles, probeSeen, probeResult, probeKilled, convVars>>
  /\ UNCHANGED notPst

\* a promise of checkForReadpst that takes every resolve
ProbeSettleLast(p, value) == value

\* resolve(value) on the promise of checkForReadpst
ProbeSettle(p, value) == Settle(p, value)

\* a continuation that spawns the converter whatever the probe answered
AfterProbeSpawnsAlways(value) ==
  IF probeResult # "pending"
  THEN UNCHANGED <<pTree, pStack, pc, pError, pLog, pDirs, convSpawned>>
  ELSE /\ pDirs' = EnsureDir(pDirs, TempDir)
       /\ pLog' = Append(pLog, [op |-> "ensure", node |-> 0, path |-> TempDir])
       /\ convSpawned' = TRUE
       /\ pc' = "convert"
       /\ UNCHANGED <<pTree, pStack, pError>>

\* extract after await checkForReadpst(): with the converter at hand the
\* temporary directory is created and the converter spawned, without it the
\* in-process part runs; a resolve of a settled promise resumes nothing
AfterProbe(value) ==
  IF probeResult # "pending"
  THEN UNCHANGED <<pTree, pStack, pc, pError, pLog, pDirs, convSpawned>>
  ELSE IF value = "true"
       THEN /\ pDirs' = EnsureDir(pDirs, TempDir)
            /\ pLog' = Append(pLog, [op |-> "ensure", node |-> 0, path |-> TempDir])
            /\ convSpawned' = TRUE
            /\ pc' = "convert"
            /\ UNCHANGED <<pTree, pStack, pError>>
       ELSE /\ StartInProcess(pLog)
            /\ UNCHANGED <<pDirs, convSpawned>>

\* readpst.on('close') of the probe: resolve(code === 0); a process that
\* failed to spawn closes with a failure code
ProbeClose ==
  /\ probeSpawned /\ ~Busy
  /\ ~Seen(probeSeen, "close")
  /\ \E code \in ExitCodes :
       /\ Seen(probeSeen, "error") => code # 0
       /\ probeSeen' = Append(probeSeen, Event("close", code))
       /\ probeResult' = ProbeSettle(probeResult, IF code = 0 THEN "true" ELSE "false")
       /\ AfterProbe(IF code = 0 THEN "true" ELSE "false")
  /\ UNCHANGED <<optVars, pRet, pFiles, pStats, probeSpawned, probeKilled,
                 convSeen, convPromise, tempTree, cStack>>
  /\ UNCHANGED notPst

\* readpst.on('error') of the probe: resolve(false)
ProbeError ==
  /\ probeSpawned /\ ~Busy
  /\ ~Seen(probeSeen, "error") /\ ~Seen(probeSeen, "close")
  /\ probeSeen' = Append(probeSeen, Event("error", NoCode))
  /\ probeResult' = ProbeSettle(probeResult, "false")
  /\ AfterProbe("false")
  /\ UNCHANGED <<optVars, pRet, pFiles, pStats, probeSpawned, probeKilled,
                 convSeen, convPromise, tempTree, cStack>>
  /\ UNCHANGED notPst

\* the 5000 ms timer, which nothing clears: readpst.kill(), resolve(false)
ProbeTimeout ==
  /\ probeSpawned /\ ~Busy
  /\ ~Seen(probeSeen, "timeout")
  /\ probeSeen' = Append(probeSeen, Event("timeout", NoCode))
  /\ probeKilled' = TRUE
  /\ probeResult' = ProbeSettle(probeResult, "false")
  /\ AfterProbe("false")
  /\ UNCHANGED <<optVars, pRet, pFiles, pStats, probeSpawned,
                 convSeen, convPromise, tempTree, cStack>>
  /\ UNCHANGED notPst

\* a rejection of processLargePSTWithReadpst that reaches the caller
AfterConvRejectSurfaced ==
  IF convPromise # "pending"
  THEN UNCHANGED <<pTree, pStack, pc, pError, pLog>>
  ELSE /\ pc' = "rejected"
       /\ pError' = "readpst"
       /\ UNCHANGED <<pTree, pStack, pLog>>

\* extract after a rejection of processLargePSTWithReadpst: the catch block
\* warns and the in-process part runs; a reject of a settled promise resumes
\* nothing
AfterConvReject ==
  IF convPromise # "pending"
  THEN UNCHANGED <<pTree, pStack, pc, pError, pLog>>
  ELSE StartInProcess(pLog)

\* readpst.on('close') of the converter: with code 0 the output it has left
\* in the temporary directory is reconciled, with any other code the promise
\* is rejected
ConvClose ==
  /\ convSpawned /\ ~Busy
  /\ ~Seen(convSeen, "close")
  /\ \E code \in ExitCodes :
       /\ Seen(convSeen, "error") => code # 0
       /\ convSeen' = Append(convSeen, Event("close", code))
       /\ IF code = 0
          THEN \E tree \in ExtractTempTrees :
                 /\ tempTree' = tree
                 /\ pFiles' = WithTempTree(pFiles, tree)
                 /\ pDirs' = pDirs \cup TempDirsOf(tree)
                 /\ cStack' = <<[entries |-> ReadDir(tree, 1), srcDir |-> TempDir,
                                 outDir |-> OutputDir]>>
                 /\ pc' = "reconciling"
                 /\ UNCHANGED <<pTree, pStack, pError, pLog, convPromise>>
          ELSE /\ convPromise' = Settle(convPromise, "rejected")
               /\ AfterConvReject
               /\ UNCHANGED <<tempTree, pFiles, pDirs, cStack>>
  /\ UNCHANGED <<optVars, pRet, pStats, probeVars, convSpawned>>
  /\ UNCHANGED notPst

\* readpst.on('error') of the converter: the promise is rejected
ConvError ==
  /\ convSpawned /\ ~Busy
  /\ ~Seen(convSeen, "error") /\ ~Seen(convSeen, "close")
  /\ convSeen' = Append(convSeen, Event("error", NoCode))
  /\ convPromise' = Settle(convPromise, "rejected")
  /\ AfterConvReject
  /\ UNCHANGED <<optVars, pRet, pDirs, pFiles, pStats, probeVars, convSpawned,
                 tempTree, cStack>>
  /\ UNCHANGED notPst

PstNext ==
  \/ ExtractCall
  \/ ProbeClose
  \/ ProbeError
  \/ ProbeTimeout
  \/ ConvClose
  \/ ConvError
  \/ ConvEntry
  \/ ConvReturn
  \/ WalkEnter
  \/ WalkSaveEmail
  \/ WalkAttachment
  \/ WalkEmailsDone
  \/ WalkDescend
  \/ WalkReturn

\* a call extract(filePath, outputDir, attachmentDir) about to be made
ExtractInit ==
  /\ skipEmpty \in BOOLEAN
  /\ maxDepth \in {-1, 0}
  /\ pFormat = "eml"
  /\ fileSize \in FileSizes
  /\ pTree = NoTree /\ pStack = <<>> /\ pRet = FALSE
  /\ pDirs = {}
  /\ pFiles = << >>
  /\ pStats \in {ZeroStats, StaleStats}
  /\ pLog = <<>>
  /\ pc = "ready"
  /\ pError = "none"
  /\ ProbeIdle
  /\ ConvIdle

\* a call processPSTFolder(root, outputDir, attachmentDir, 0, filePrefix) on a
\* fresh extractor whose output directories exist
WalkInit ==
  /\ skipEmpty \in BOOLEAN
  /\ maxDepth \in {-1, 0, 1}
  /\ pFormat \in {"eml", "txt"}
  /\ pTree \in Trees(TreeShapes, FolderNameSchemes)
  /\ pStack = <<NewFrame(1, OutputDir, 0)>>
  /\ pDirs = Prefixes(OutputDir) \cup Prefixes(AttachmentDir)
  /\ pFiles = << >>
  /\ pStats = ZeroStats
  /\ pLog = <<>>
  /\ pRet = FALSE
  /\ pc = "called"
  /\ pError = "none"
  /\ fileSize = [hi |-> 0, lo |-> 0]
  /\ ProbeIdle
  /\ ConvIdle

\* display names made of dots, which sanitizeFilename leaves as they are
DotNameSchemes ==
  { << <<>>, <<".",".">>, <<".",".">> >>,
    << <<".",".">>, <<".">>, <<"I","n">> >> }

\* processPSTFolder called on the root of a tree whose folders carry such
\* names
WalkDotsInit ==
  /\ skipEmpty \in BOOLEAN
  /\ maxDepth = -1
  /\ pFormat = "eml"
  /\ pTree \in Trees(TreeShapes, DotNameSchemes)
  /\ pStack = <<NewFrame(1, OutputDir, 0)>>
  /\ pDirs = Prefixes(OutputDir) \cup Prefixes(AttachmentDir)
  /\ pFiles = << >>
  /\ pStats = ZeroStats
  /\ pLog = <<>>
  /\ pRet = FALSE
  /\ pc = "called"
  /\ pError = "none"
  /\ fileSize = [hi |-> 0, lo |-> 0]
  /\ ProbeIdle
  /\ ConvIdle

\* the output trees in which the converter has made a directory called
\* readpst_temp, after a folder of that name in the container
NestedTempTrees ==
  { [t EXCEPT !.names = SubSeq(<< <<>>, <<"r","e","a","d","p","s","t","_","t","e","m","p">>,
                                  <<"t">> >>, 1, Len(t.parent))] :
      t \in TempTrees({<<0, 1>>, <<0, 1, 1>>}) }

\* convertReadpstOutput called on such a tree
ConvNestedInit ==
  /\ skipEmpty = TRUE /\ maxDepth = -1 /\ pFormat = "eml" /\ fileSize = [hi |-> 0, lo |-> 0]
  /\ pTree = NoTree /\ pStack = <<>> /\ pRet = FALSE
  /\ tempTree \in NestedTempTrees
  /\ pDirs = Prefixes(OutputDir) \cup Prefixes(AttachmentDir) \cup TempDirsOf(tempTree)
  /\ pFiles = WithTempTree(<< >>, tempTree)
  /\ pStats = ZeroStats
  /\ pLog = <<>>
  /\ pc = "convCalled"
  /\ pError = "none"
  /\ ProbeIdle
  /\ convSpawned = FALSE /\ convSeen = <<>> /\ convPromise = "pending"
  /\ cStack = <<[entries |-> ReadDir(tempTree, 1), srcDir |-> TempDir, outDir |-> OutputDir]>>

\* the extractor that is not running
MboxIdle ==
  /\ mSource = <<>> /\ mInput = <<>> /\ mFormat = "eml" /\ mPos = 0
  /\ rlState = "closed"
  /\ rlError = FALSE /\ inEmail = FALSE /\ currentEmailLines = <<>>
  /\ emailCount = 0 /\ mStats = 0 /\ mFiles = << >> /\ mEmitted = <<>>
  /\ mPromise = "pending"

PstIdle ==
  /\ skipEmpty = TRUE /\ maxDepth = -1 /\ pFormat = "eml" /\ pTree = NoTree
  /\ pStack = <<>> /\ pDirs = {} /\ pFiles = << >> /\ pStats = ZeroStats
  /\ pLog = <<>> /\ pRet = FALSE /\ pc = "idle" /\ pError = "none"
  /\ fileSize = [hi |-> 0, lo |-> 0] /\ ProbeIdle /\ ConvIdle


(***************************************************************************)
(* OLMExtractor                                                            *)
(***************************************************************************)
\* most items an OLM archive holds
MaxOlmItems == 3

\* the kinds of item the reader has a callback for
OlmKinds == {"email", "contact", "appointment", "task", "note"}

\* this.stats after resetStats
OlmZeroStats == [k \in OlmKinds |-> 0]

\* a callback that counts its item before the write is known to have
\* succeeded
OlmCallbackCountsFirst(stats, kind, writeOk) == [stats EXCEPT ![kind] = @ + 1]

\* a callback of the reader: inside its try block the file is written and
\* then the counter of the kind incremented; the catch block swallows a
\* failed write
OlmCallback(stats, kind, writeOk) ==
  IF writeOk THEN [stats EXCEPT ![kind] = @ + 1] ELSE stats

\* an order of statements that starts the reader before the callbacks are set
OlmSetupStepsReadFirst ==
  <<"resetStats", "ensureDirectoryExistence", "new OLMReader", "readOLMFile",
    "setEmailCallback", "setContactCallback", "setAppointmentCallback",
    "setTaskCallback", "setNoteCallback">>

\* the statements of extract, in the order of the code
OlmSetupSteps ==
  <<"resetStats", "ensureDirectoryExistence", "new OLMReader",
    "setEmailCallback", "setContactCallback", "setAppointmentCallback",
    "setTaskCallback", "setNoteCallback", "readOLMFile">>

\* the kind of item a setXxxCallback statement registers a callback for
KindOfSetter(step) ==
  CASE step = "setEmailCallback" -> "email"
    [] step = "setContactCallback" -> "contact"
    [] step = "setAppointmentCallback" -> "appointment"
    [] step = "setTaskCallback" -> "task"
    [] step = "setNoteCallback" -> "note"

Setters ==
  {"setEmailCallback", "setContactCallback", "setAppointmentCallback",
   "setTaskCallback", "setNoteCallback"}

\* extract has run all its statements
OlmSetupDone == oPc > Len(OlmSetupSteps)

\* the next statement of extract. A throw of ensureDirectoryExistence leaves
\* the async function: the promise is rejected and nothing else runs.
OlmSetup ==
  /\ oState \in {"called", "reading"}
  /\ oPc >= 1 /\ ~OlmSetupDone
  /\ LET step == OlmSetupSteps[oPc]
     IN  /\ oLog' = Append(oLog, step)
         /\ oStats' = IF step = "resetStats" THEN OlmZeroStats ELSE oStats
         /\ oRegistered' = IF step \in Setters
                           THEN oRegistered \cup {KindOfSetter(step)}
                           ELSE oRegistered
         /\ IF step = "ensureDirectoryExistence"
            THEN \E ok \in BOOLEAN :
                   IF ok THEN /\ oPc' = oPc + 1
                              /\ UNCHANGED <<oState, oPromise, oError>>
                   ELSE /\ oPc' = Len(OlmSetupSteps) + 1
                        /\ oState' = "failed"
                        /\ oPromise' = Settle(oPromise, "rejected")
                        /\ oError' = "ensureDirectoryExistence"
            ELSE /\ oPc' = oPc + 1
                 /\ oState' = IF step = "readOLMFile" THEN "reading" ELSE oState
                 /\ UNCHANGED <<oPromise, oError>>
  /\ UNCHANGED <<oItems, oWrites>>
  /\ UNCHANGED notOlm

\* a callback whose exception would leave it and reach the reader
CallbackThrowsUncaught(writeOk) == ~writeOk

\* whether an exception leaves a callback of the reader: each callback has
\* its whole body in a try block with a catch that at most logs
CallbackThrows(writeOk) == FALSE

\* the reader hands the next item of the archive to the callback of its kind,
\* if it has one. An exception leaving the callback would fail the read.
OlmItem ==
  /\ oState = "reading"
  /\ oItems # <<>>
  /\ oLog' = Append(oLog, "item")
  /\ IF Head(oItems) \in oRegistered
     THEN \E writeOk \in BOOLEAN :
            /\ oStats' = OlmCallback(oStats, Head(oItems), writeOk)
            /\ oWrites' = Append(oWrites, [kind |-> Head(oItems), ok |-> writeOk])
            /\ IF CallbackThrows(writeOk)
               THEN /\ oState' = "failed"
                    /\ oPromise' = Settle(oPromise, "rejected")
                    /\ oError' = "callback"
               ELSE UNCHANGED <<oState, oPromise, oError>>
     ELSE UNCHANGED <<oStats, oWrites, oState, oPromise, oError>>
  /\ oItems' = Tail(oItems)
  /\ UNCHANGED <<oPc, oRegistered>>
  /\ UNCHANGED notOlm

\* readOLMFile(filePath) fulfils: resolve(this.stats)
OlmDone ==
  /\ oState = "reading" /\ OlmSetupDone
  /\ oItems = <<>>
  /\ oState' = "done"
  /\ oPromise' = Settle(oPromise, "resolved")
  /\ oLog' = Append(oLog, "resolve")
  /\ UNCHANGED <<oItems, oStats, oWrites, oPc, oRegistered, oError>>
  /\ UNCHANGED notOlm

\* readOLMFile(filePath) rejects, at any point of the archive: reject(error)
OlmFail ==
  /\ oState = "reading" /\ OlmSetupDone
  /\ oState' = "failed"
  /\ oPromise' = Settle(oPromise, "rejected")
  /\ oError' = "reader"
  /\ oLog' = Append(oLog, "reject")
  /\ UNCHANGED <<oItems, oStats, oWrites, oPc, oRegistered>>
  /\ UNCHANGED notOlm

OlmNext == OlmSetup \/ OlmItem \/ OlmDone \/ OlmFail

\* OLMExtractor.extract is called on a new instance
OlmInit ==
  /\ oItems \in SeqsUpTo(OlmKinds, MaxOlmItems)
  /\ oState = "called"
  /\ oStats = OlmZeroStats
  /\ oWrites = <<>>
  /\ oPromise = "pending"
  /\ oPc = 1 /\ oRegistered = {} /\ oError = "none" /\ oLog = <<>>

\* the extractor that is not running
OlmIdle ==
  /\ oItems = <<>> /\ oState = "idle" /\ oStats = OlmZeroStats
  /\ oWrites = <<>> /\ oPromise = "pending"
  /\ oPc = 0 /\ oRegistered = {} /\ oError = "none" /\ oLog = <<>>

(***************************************************************************)
(* One extractor instance, called several times                            *)
(***************************************************************************)
\* most calls of extract on one instance
MaxCalls == 3

\* most artifacts one call writes
MaxCallWrites == 2

\* a statistics object with all counters at 0
FreshStats == [emailsExtracted |-> 0]

\* a reset that zeroes the counters of the object this.stats refers to
ResetStatsInPlace(heap, this) ==
  [heap |-> [heap EXCEPT ![this] = FreshStats], this |-> this]

\* resetStats: this.stats = { emailsExtracted: 0, ... }, a new object
ResetStats(heap, this) ==
  [heap |-> Append(heap, FreshStats), this |-> Len(heap) + 1]

\* extract is called while no other call runs: the statistics are reset
CallExtract ==
  /\ xPhase = "idle"
  /\ xCalls < MaxCalls
  /\ xHeap' = ResetStats(xHeap, xThis).heap
  /\ xThis' = ResetStats(xHeap, xThis).this
  /\ xPhase' = "running"
  /\ xCalls' = xCalls + 1
  /\ xWrites' = 0
  /\ UNCHANGED xReturned
  /\ UNCHANGED notCalls

\* the running call writes an artifact: this.stats.emailsExtracted++ follows
\* a write that succeeded
CallWrite ==
  /\ xPhase = "running"
  /\ xWrites < MaxCallWrites
  /\ \E writeOk \in BOOLEAN :
       IF writeOk
       THEN /\ xHeap' = [xHeap EXCEPT ![xThis].emailsExtracted = @ + 1]
            /\ xWrites' = xWrites + 1
       ELSE UNCHANGED <<xHeap, xWrites>>
  /\ UNCHANGED <<xThis, xPhase, xCalls, xReturned>>
  /\ UNCHANGED notCalls

\* the running call ends with resolve(this.stats) or return this.stats
CallResolve ==
  /\ xPhase = "running"
  /\ xReturned' = Append(xReturned, [ref |-> xThis, written |-> xWrites])
  /\ xPhase' = "idle"
  /\ UNCHANGED <<xHeap, xThis, xCalls, xWrites>>
  /\ UNCHANGED notCalls

\* the running call ends with a rejection: no statistics reach the caller
CallReject ==
  /\ xPhase = "running"
  /\ xPhase' = "idle"
  /\ UNCHANGED <<xHeap, xThis, xCalls, xWrites, xReturned>>
  /\ UNCHANGED notCalls

CallsNext == CallExtract \/ CallWrite \/ CallResolve \/ CallReject

\* a new extractor: the constructor has made the first statistics object,
\* whose counter a user of the instance may have set
CallsInit ==
  /\ xHeap \in {<<[emailsExtracted |-> n]>> : n \in {0, 10}}
  /\ xThis = 1
  /\ xPhase = "idle"
  /\ xCalls = 0
  /\ xWrites = 0
  /\ xReturned = <<>>

\* no instance under observation
CallsIdle ==
  /\ xHeap = <<>> /\ xThis = 0 /\ xPhase = "none" /\ xCalls = 0 /\ xWrites = 0
  /\ xReturned = <<>>

(***************************************************************************)
(* One MboxExtractor instance, two calls of extract that overlap           *)
(***************************************************************************)
\* largest number of records in one container
MaxOverlapRecords == 2

OverlapCalls == {1, 2}

\* extract up to the return of its promise: resetStats, and the line source
\* of the call's container opened
OverlapExtract(c) ==
  /\ vCalls[c].state = "none"
  /\ vHeap' = ResetStats(vHeap, vThis).heap
  /\ vThis' = ResetStats(vHeap, vThis).this
  /\ vCalls' = [vCalls EXCEPT ![c].state = "running"]
  /\ UNCHANGED notOvl

\* a 'line' or 'close' event of call c that completes a record: processEmail
\* writes it and, the write done, increments this.stats.emailsExtracted
OverlapRecord(c) ==
  /\ vCalls[c].state = "running"
  /\ vCalls[c].left > 0
  /\ \E writeOk \in BOOLEAN :
       IF writeOk
       THEN /\ vHeap' = [vHeap EXCEPT
                          ![vThis].emailsExtracted = @ + 1]
            /\ vCalls' = [vCalls EXCEPT ![c].left = @ - 1, ![c].written = @ + 1]
       ELSE /\ vCalls' = [vCalls EXCEPT ![c].left = @ - 1]
            /\ UNCHANGED vHeap
  /\ UNCHANGED vThis
  /\ UNCHANGED notOvl

\* the 'close' event of call c, its last record handed over: resolve(this.stats)
OverlapResolve(c) ==
  /\ vCalls[c].state = "running"
  /\ vCalls[c].left = 0
  /\ vCalls' = [vCalls EXCEPT ![c].state = "resolved",
                               ![c].ref = vThis,
                               ![c].count = vHeap[vThis].emailsExtracted]
  /\ UNCHANGED <<vHeap, vThis>>
  /\ UNCHANGED notOvl

OverlapNext ==
  \E c \in OverlapCalls : OverlapExtract(c) \/ OverlapRecord(c) \/ OverlapResolve(c)

\* a new MboxExtractor, and two containers about to be handed to it
OverlapInit ==
  /\ vHeap = <<FreshStats>>
  /\ vThis = 1
  /\ vCalls \in [OverlapCalls -> {[state |-> "none", left |-> n, written |-> 0,
                                    ref |-> 0, count |-> 0] :
                                     n \in 0..MaxOverlapRecords}]

(***************************************************************************)
(* EmailExtractor: detectFileType and extract                              *)
(***************************************************************************)
\* base names of the paths handed in
IndexNames ==
  { <<"f",".","p","s","t">>, <<"F",".","P","S","T">>, <<"f",".","o","s","t">>,
    <<"f",".","m","b","o","x">>, <<"f",".","O","l","m">>, <<"f",".","x","y","z">>,
    <<"f">>, <<".","p","s","t">> }

\* contents of files shorter than eight bytes: empty, '!BDN', '!BD', 'From ',
\* 'From', 'From ' with the high bit of every byte set, two zero bytes
ByteSamples ==
  { <<>>, <<33, 66, 68, 78>>, <<33, 66, 68>>, <<70, 114, 111, 109, 32>>,
    <<70, 114, 111, 109>>, <<198, 242, 239, 237, 160>>, <<0, 0>> }

\* the first eight bytes of a longer file that begins with the sample
RECURSIVE PadToEight(_)
PadToEight(bytes) == IF Len(bytes) >= 8 THEN bytes ELSE PadToEight(Append(bytes, 0))

\* the files a path may lead to: short ones, whose size is their length, and
\* ones of a size around 2 GiB
IndexFiles ==
  { [exists |-> e, name |-> n, size |-> Size(0, Len(b)), bytes |-> b, readable |-> r] :
      e \in BOOLEAN, n \in IndexNames, b \in ByteSamples, r \in BOOLEAN }
  \cup
  { [exists |-> TRUE, name |-> n, size |-> z, bytes |-> PadToEight(b), readable |-> r] :
      n \in IndexNames, z \in FileSizes, b \in ByteSamples, r \in BOOLEAN }

HexDigits == <<"0","1","2","3","4","5","6","7","8","9","a","b","c","d","e","f">>

\* buffer.toString('hex')
RECURSIVE ToHex(_)
ToHex(bytes) ==
  IF bytes = <<>> THEN <<>>
  ELSE <<HexDigits[(Head(bytes) \div 16) + 1], HexDigits[(Head(bytes) % 16) + 1]>>
       \o ToHex(Tail(bytes))

\* the character with the given code, for the codes of 'From ' and '!BDN';
\* "?" stands for every other character
CharOfCode(code) ==
  CASE code = 70 -> "F" [] code = 114 -> "r" [] code = 111 -> "o" [] code = 109 -> "m"
    [] code = 32 -> " " [] code = 33 -> "!" [] code = 66 -> "B" [] code = 68 -> "D"
    [] code = 78 -> "N" [] OTHER -> "?"

\* buffer.toString('ascii'): the highest bit of each byte is unset before
\* the byte is decoded
ToAscii(bytes) == [i \in 1..Len(bytes) |-> CharOfCode(bytes[i] % 128)]

\* a table without the .ost extension
RecognizedKindNoOst(ext) ==
  IF ext = <<".","p","s","t">> THEN "pst"
  ELSE IF ext = <<".","m","b","o","x">> THEN "mbox"
  ELSE IF ext = <<".","o","l","m">> THEN "olm"
  ELSE "none"

\* the kind detectFileType returns for an extension, "none" for any other
RecognizedKind(ext) ==
  IF ext = <<".","p","s","t">> THEN "pst"
  ELSE IF ext = <<".","o","s","t">> THEN "ost"
  ELSE IF ext = <<".","m","b","o","x">> THEN "mbox"
  ELSE IF ext = <<".","o","l","m">> THEN "olm"
  ELSE "none"

\* fileStats.size > 2 * 1024 * 1024 * 1024 of detectFileType
IsLargeFile(size) == SizeGreater(size, Threshold)

Returned(value, log) == [outcome |-> "returned", value |-> value, log |-> log]

Threw(error, log) == [outcome |-> "threw", value |-> error, log |-> log]

NotFoundError == [error |-> "File not found"]

UnsupportedError(ext) == [error |-> "Unsupported file type", ext |-> ext]

AttachmentDirError == [error |-> "Attachment directory is required for PST/OST files"]

\* detectFileType(filePath): the outcome and the file-system accesses made
DetectFileType(file) ==
  IF ~file.exists THEN Threw(NotFoundError, <<"existsSync">>)
  ELSE
    LET ext == ToLowerCase(Extname(file.name))
        isLargeFile == IsLargeFile(file.size)
        log == <<"existsSync", "statSync">>
    IN  IF RecognizedKind(ext) # "none" THEN Returned(RecognizedKind(ext), log)
        ELSE IF isLargeFile THEN Threw(UnsupportedError(ext), log)
        ELSE IF ~file.readable
             THEN Threw(UnsupportedError(ext), Append(log, "readFileSync"))
        ELSE IF StartsWith(ToHex(file.bytes), <<"2","1","4","2","4","4","4","e">>)
             THEN Returned("pst", Append(log, "readFileSync"))
        ELSE IF StartsWith(ToAscii(file.bytes), <<"F","r","o","m"," ">>)
             THEN Returned("mbox", Append(log, "readFileSync"))
        ELSE Threw(UnsupportedError(ext), Append(log, "readFileSync"))

\* a dispatch that makes the extractor before it looks at attachmentDir
DispatchConstructsFirst(fileType, attachmentDir) ==
  IF fileType \in {"pst", "ost"}
  THEN IF attachmentDir \in {"null", "empty"}
       THEN Threw(AttachmentDirError, <<"new PSTExtractor">>)
       ELSE Returned("PSTExtractor", <<"new PSTExtractor", "PSTExtractor.extract">>)
  ELSE IF fileType = "mbox"
  THEN Returned("MboxExtractor", <<"new MboxExtractor", "MboxExtractor.extract">>)
  ELSE Returned("OLMExtractor", <<"new OLMExtractor", "OLMExtractor.extract">>)

\* the switch of EmailExtractor.extract: a falsy attachmentDir fails a
\* pst/ost container, anything else has its extractor made and called
Dispatch(fileType, attachmentDir) ==
  IF fileType \in {"pst", "ost"}
  THEN IF attachmentDir \in {"null", "empty"}
       THEN Threw(AttachmentDirError, <<>>)
       ELSE Returned("PSTExtractor", <<"new PSTExtractor", "PSTExtractor.extract">>)
  ELSE IF fileType = "mbox"
  THEN Returned("MboxExtractor", <<"new MboxExtractor", "MboxExtractor.extract">>)
  ELSE Returned("OLMExtractor", <<"new OLMExtractor", "OLMExtractor.extract">>)

\* a call of detectFileType
IndexDetect ==
  /\ iPc = "called" /\ iEntry = "detectFileType"
  /\ LET d == DetectFileType(iFile)
     IN  /\ iPc' = d.outcome
         /\ iResult' = d.value
         /\ iLog' = iLog \o d.log
  /\ UNCHANGED <<iFile, iAttachmentDir, iEntry>>
  /\ UNCHANGED notIdx

\* a call of extract, up to the await on the extractor it has made
IndexExtract ==
  /\ iPc = "called" /\ iEntry = "extract"
  /\ LET d == DetectFileType(iFile)
     IN  IF d.outcome = "threw"
         THEN /\ iPc' = "threw"
              /\ iResult' = d.value
              /\ iLog' = iLog \o d.log
         ELSE LET x == Dispatch(d.value, iAttachmentDir)
              IN  /\ iPc' = IF x.outcome = "threw" THEN "threw" ELSE "dispatched"
                  /\ iResult' = x.value
                  /\ iLog' = iLog \o d.log \o x.log
  /\ UNCHANGED <<iFile, iAttachmentDir, iEntry>>
  /\ UNCHANGED notIdx

IndexNext == IndexDetect \/ IndexExtract

\* a call about to be made
IndexInit ==
  /\ iFile \in IndexFiles
  /\ iAttachmentDir \in {"null", "empty", "dir"}
  /\ iEntry \in {"detectFileType", "extract"}
  /\ iPc = "called"
  /\ iResult = "none"
  /\ iLog = <<>>

\* no call of the front end
IndexIdle ==
  /\ iFile = [exists |-> FALSE, name |-> <<>>, size |-> Size(0, 0), bytes |-> <<>>,
              readable |-> FALSE]
  /\ iAttachmentDir = "null" /\ iEntry = "none" /\ iPc = "idle"
  /\ iResult = "none" /\ iLog = <<>>

(***************************************************************************)
(* EmailExtractor: the options of the instance and of a call               *)
(***************************************************************************)
\* largest number of extractXxx calls on one instance
MaxConfigCalls == 2

OptionKeys == {"verbose", "format", "maxDepth", "skipEmpty"}

\* the values an option may be given
OptionValues ==
  [verbose |-> {"true", "false"},
   format |-> {"eml", "txt"},
   maxDepth |-> {"-1", "2"},
   skipEmpty |-> {"true", "false"}]

\* the option objects a caller may pass: any of the keys, each with a value
OptionObjects ==
  UNION { { o \in [keys -> UNION {OptionValues[k] : k \in OptionKeys}] :
              \A k \in keys : o[k] \in OptionValues[k] } :
          keys \in SUBSET OptionKeys }

\* { ...a, ...b }: a new object with the properties of a, then those of b
Spread(a, b) ==
  [k \in (DOMAIN a) \cup (DOMAIN b) |-> IF k \in DOMAIN b THEN b[k] ELSE a[k]]

\* the defaults of the EmailExtractor constructor
DefaultOptions ==
  [verbose |-> "false", format |-> "eml", maxDepth |-> "-1", skipEmpty |-> "true"]

\* the defaults of the constructor of an extractor
ExtractorDefaults(kind) ==
  IF kind = "pst"
  THEN [verbose |-> "false", maxDepth |-> "-1", skipEmpty |-> "true", format |-> "eml"]
  ELSE [verbose |-> "false", format |-> "eml"]

\* a merge that writes the overrides into the options of the instance
MergeOptionsInPlace(instance, options) ==
  [merged |-> Spread(instance, options), instance |-> Spread(instance, options)]

\* { ...this.options, ...options }: the merged object, and this.options
\* after the merge
MergeOptions(instance, options) ==
  [merged |-> Spread(instance, options), instance |-> instance]

\* new EmailExtractor(options)
ConfigInit ==
  /\ eGiven \in OptionObjects
  /\ eOptions = Spread(DefaultOptions, eGiven)
  /\ eOverride = <<>> /\ eKind = "none" /\ eResolved = <<>> /\ eCalls = 0

\* extractPST / extractOST / extractMbox / extractOLM, up to the extractor's
\* constructor
ConfigExtract ==
  /\ eCalls < MaxConfigCalls
  /\ \E kind \in {"pst", "mbox", "olm"} : \E options \in OptionObjects :
       LET m == MergeOptions(eOptions, options)
       IN  /\ eOptions' = m.instance
           /\ eResolved' = Spread(ExtractorDefaults(kind), m.merged)
           /\ eOverride' = options
           /\ eKind' = kind
  /\ eCalls' = eCalls + 1
  /\ UNCHANGED eGiven
  /\ UNCHANGED notCfg

ConfigNext == ConfigExtract

\* no EmailExtractor instance
CfgIdle ==
  /\ eGiven = <<>> /\ eOptions = <<>> /\ eOverride = <<>> /\ eKind = "none"
  /\ eResolved = <<>> /\ eCalls = 0

(***************************************************************************)
(* The command line: main                                                  *)
(***************************************************************************)
\* most containers of one invocation
MaxCliFiles == 3

\* all sequences over S of length lo to hi
SeqsFromTo(S, lo, hi) ==
  IF hi < lo THEN {}
  ELSE {s \in SeqsUpTo(S, hi) : Len(s) >= lo}

\* a loop that goes on to the next container without waiting
ReadyAlways(running) == TRUE

\* the await of the loop body: the next iteration begins when the extract
\* call of this one has settled
Ready(running) == running = {}

\* main has resolved the input files and made the EmailExtractor
CliInit ==
  /\ kFiles \in SeqsFromTo({"pst", "ost", "mbox", "olm"}, 1, MaxCliFiles)
  /\ kNext = 1 /\ kRunning = {} /\ kLog = <<>> /\ kExit = "running"

\* one iteration of the loop up to its await: detectFileType, the two
\* ensureDirectoryExistence calls, then extract with the attachment directory
\* for pst/ost only. A throw of any of them is caught at the end of main,
\* which exits with status 1.
CliStart ==
  /\ kExit = "running"
  /\ kNext <= Len(kFiles)
  /\ Ready(kRunning)
  /\ \E threw \in {"none", "detectFileType", "ensureDirectoryExistence"} :
       IF threw = "none"
       THEN /\ kRunning' = kRunning \cup {kNext}
            /\ kLog' = Append(kLog, [ev |-> "start", file |-> kNext,
                                     attachments |-> kFiles[kNext] \in {"pst", "ost"}])
            /\ kNext' = kNext + 1
            /\ UNCHANGED kExit
       ELSE /\ kExit' = "exit1"
            /\ kRunning' = {}
            /\ kLog' = Append(kLog, [ev |-> "fatal", file |-> kNext,
                                     attachments |-> FALSE])
            /\ UNCHANGED kNext
  /\ UNCHANGED kFiles
  /\ UNCHANGED notCli

\* an extract call resolves: its statistics are added to the global ones
CliResolve ==
  /\ kExit = "running"
  /\ \E i \in kRunning :
       /\ kRunning' = kRunning \ {i}
       /\ kLog' = Append(kLog, [ev |-> "resolve", file |-> i, attachments |-> FALSE])
  /\ UNCHANGED <<kFiles, kNext, kExit>>
  /\ UNCHANGED notCli

\* an extract call rejects: the catch of main prints and exits with status 1
CliReject ==
  /\ kExit = "running"
  /\ \E i \in kRunning :
       kLog' = Append(kLog, [ev |-> "fatal", file |-> i, attachments |-> FALSE])
  /\ kRunning' = {}
  /\ kExit' = "exit1"
  /\ UNCHANGED <<kFiles, kNext>>
  /\ UNCHANGED notCli

\* the loop has ended: the totals are printed
CliComplete ==
  /\ kExit = "running"
  /\ kNext > Len(kFiles) /\ kRunning = {}
  /\ kExit' = "complete"
  /\ UNCHANGED <<kFiles, kNext, kRunning, kLog>>
  /\ UNCHANGED notCli

CliNext == CliStart \/ CliResolve \/ CliReject \/ CliComplete

\* no invocation of the command line
OverlapIdle ==
  /\ vHeap = <<>> /\ vThis = 0 /\ vCalls = <<>>

CliIdle ==
  /\ kFiles = <<>> /\ kNext = 0 /\ kRunning = {} /\ kLog = <<>> /\ kExit = "idle"

(***************************************************************************)
(* The helpers shared by the extractors                                    *)
(***************************************************************************)
\* longest name handed to sanitizeFilename
MaxNameLen == 3

\* the characters names are made of: the nine characters of the class of
\* sanitizeFilename, whitespace, a letter and the underscore
NameChars == ForbiddenChars \cup Whitespace \cup {"a", "_"}

\* a name about to be sanitized
SanitizeInit ==
  /\ sName \in SeqsUpTo(NameChars, MaxNameLen) \cup {Null}
  /\ sResult = Null /\ sAgain = Null /\ sPc = "called"

\* sanitizeFilename(filename)
SanitizeCall ==
  /\ sPc = "called"
  /\ sResult' = sanitizeFilename(sName)
  /\ sPc' = "once"
  /\ UNCHANGED <<sName, sAgain, dirVars>>
  /\ UNCHANGED notUtil

\* sanitizeFilename applied to its own result
SanitizeAgain ==
  /\ sPc = "once"
  /\ sAgain' = sanitizeFilename(sResult)
  /\ sPc' = "twice"
  /\ UNCHANGED <<sName, sResult, dirVars>>
  /\ UNCHANGED notUtil

SanitizeNext == SanitizeCall \/ SanitizeAgain

\* most calls of ensureDirectoryExistence on one path
MaxEnsureCalls == 3

\* the paths of the file system: a directory, a path in it, a path in that
DirPaths == { <<"a">>, <<"a", "b">>, <<"a", "b", "c">> }

\* the file systems: a path holds a directory, a file or nothing, and
\* something only inside a directory
FileSystems ==
  { fs \in [DirPaths -> {"absent", "dir", "file"}] :
      \A p \in DirPaths :
        (Len(p) > 1 /\ fs[p] # "absent") => fs[SubSeq(p, 1, Len(p) - 1)] = "dir" }

\* a test that never finds the path
ExistsSyncNever(fs, path) == FALSE

\* fs.existsSync(path)
ExistsSync(fs, path) == fs[path] # "absent"

\* fs.mkdirSync(path, { recursive: true }): throws when a component of the
\* path is a file, or when the system refuses (allowed = FALSE); otherwise
\* every missing component becomes a directory
MkdirSyncRecursive(fs, path, allowed) ==
  IF (\E q \in Prefixes(path) : fs[q] = "file") \/ ~allowed
  THEN [fs |-> fs, raised |-> TRUE]
  ELSE [fs |-> [q \in DirPaths |-> IF q \in Prefixes(path) THEN "dir" ELSE fs[q]],
        raised |-> FALSE]

\* ensureDirectoryExistence(dirPath): the file system afterwards, whether
\* mkdirSync was called, whether the call threw
EnsureDirectoryExistence(fs, path, allowed) ==
  IF ~ExistsSync(fs, path)
  THEN LET m == MkdirSyncRecursive(fs, path, allowed)
       IN  [fs |-> m.fs, created |-> TRUE, raised |-> m.raised]
  ELSE [fs |-> fs, created |-> FALSE, raised |-> FALSE]

\* a path about to be ensured
EnsureInit ==
  /\ dFs \in FileSystems
  /\ dPath \in DirPaths
  /\ dLog = <<>>

\* one call of ensureDirectoryExistence(dPath)
EnsureCall ==
  /\ dPath # <<>>
  /\ Len(dLog) < MaxEnsureCalls
  /\ \E allowed \in BOOLEAN :
       LET r == EnsureDirectoryExistence(dFs, dPath, allowed)
       IN  /\ dFs' = r.fs
           /\ dLog' = Append(dLog, [before |-> dFs, after |-> r.fs,
                                    created |-> r.created, raised |-> r.raised])
  /\ UNCHANGED <<dPath, sName, sResult, sAgain, sPc>>
  /\ UNCHANGED notUtil

EnsureNext == EnsureCall

\* no call of ensureDirectoryExistence
DirIdle == dFs = <<>> /\ dPath = <<>> /\ dLog = <<>>

\* no call of sanitizeFilename
SanitizeIdle == sName = Null /\ sResult = Null /\ sAgain = Null /\ sPc = "idle"

\* no helper called
UtilIdle == SanitizeIdle /\ DirIdle

(***************************************************************************)
(* Claims about MboxExtractor                                              *)
(***************************************************************************)
\* the lines delivered so far
Delivered == SubSeq(mInput, 1, mPos)

\* the marker test of the format, stated on the characters
HasFromPrefix(line) ==
  /\ Len(line) >= 5
  /\ line[1] = "F" /\ line[2] = "r" /\ line[3] = "o" /\ line[4] = "m"
  /\ line[5] = " "

MarkerPositions(lines) == {i \in 1..Len(lines) : HasFromPrefix(lines[i])}

\* position of the k-th marker line
KthMarker(lines, k) ==
  CHOOSE i \in MarkerPositions(lines) :
    Cardinality({j \in MarkerPositions(lines) : j <= i}) = k

\* the lines from the k-th marker up to the next marker or the end
ExpectedRecord(lines, k) ==
  LET from == KthMarker(lines, k)
      later == {j \in MarkerPositions(lines) : j > from}
      to == IF later = {} THEN Len(lines)
            ELSE (CHOOSE j \in later : \A l \in later : j <= l) - 1
  IN  SubSeq(lines, from, to)

AllWritten == \A k \in 1..Len(mEmitted) : mEmitted[k].written

\* C1: once the input has ended, the records emitted are, in order, exactly
\* the segments of the delivered lines that start at a 'From ' line and end
\* before the next one (the last at the end of input); with no write failure
\* emailsExtracted and the number of files written equal the number of
\* 'From ' lines.
C1_RecordsAreMarkerSegments ==
  rlState = "closed" =>
    LET n == Cardinality(MarkerPositions(Delivered))
    IN  /\ Len(mEmitted) = n
        /\ \A k \in 1..Len(mEmitted) :
             mEmitted[k].lines = ExpectedRecord(Delivered, k)
        /\ AllWritten => mStats = n /\ Cardinality(DOMAIN mFiles) = n

\* two records, separated by a marker, both written, input read to its end
C1_Witness ==
  /\ rlState = "closed" /\ ~rlError /\ mPos = Len(mInput)
  /\ Len(mEmitted) = 2 /\ AllWritten
  /\ mStats = 2 /\ Cardinality(DOMAIN mFiles) = 2
  /\ Len(mEmitted[1].lines) = 2

\* C2: a failing write of one record never rejects the promise and never
\* stops the splitter: the promise is rejected only after an 'error' of the
\* line source, no handler dies, the number of records emitted depends on the
\* delivered lines alone, every record whose own write succeeded is in the
\* output directory, and at the end of input the promise is resolved however
\* many writes failed.
C2_WriteFailureIsolated ==
  /\ mPromise = "rejected" => rlError
  /\ rlState # "crashed"
  /\ LET n == Cardinality(MarkerPositions(Delivered))
     IN  Len(mEmitted) = IF rlState = "closed" THEN n
                         ELSE IF n = 0 THEN 0 ELSE n - 1
  /\ \A k \in 1..Len(mEmitted) :
       mEmitted[k].written => EmailFilePath(k, mFormat) \in DOMAIN mFiles
  /\ (rlState = "closed" /\ ~rlError) => mPromise = "resolved"

\* a record failed to write, a later one was written, the promise resolved
C2_Witness ==
  /\ rlState = "closed" /\ ~rlError /\ mPromise = "resolved"
  /\ \E k \in 1..Len(mEmitted) : \E j \in 1..Len(mEmitted) :
       /\ k < j
       /\ ~mEmitted[k].written
       /\ mEmitted[j].written
       /\ EmailFilePath(j, mFormat) \in DOMAIN mFiles

\* the characters of the source from the k-th marker line up to the next
\* marker line or the end of the file, line terminators included
RecordBytes(src, k) ==
  LET scanned == ScanLines(src, 1, 1, <<>>)
      texts == [i \in 1..Len(scanned) |-> scanned[i].text]
      from == KthMarker(texts, k)
      later == {j \in MarkerPositions(texts) : j > from}
      to == IF later = {} THEN Len(src)
            ELSE scanned[CHOOSE j \in later : \A l \in later : j <= l].from - 1
  IN  SubSeq(src, scanned[from].from, to)

\* C21: in the eml format the file written for each record holds exactly the
\* characters of that record in the source container, its LF or CRLF line
\* terminators included.
C21_ExactSourceBytes ==
  (rlState = "closed" /\ ~rlError /\ mFormat = "eml" /\ AllWritten)
    => \A k \in 1..Len(mEmitted) :
         mFiles[EmailFilePath(k, "eml")] = RecordBytes(mSource, k)

RECURSIVE FlattenLines(_)
\* the lines of the records, one record after the other
FlattenLines(records) ==
  IF records = <<>> THEN <<>>
  ELSE Head(records).lines \o FlattenLines(Tail(records))

\* the delivered lines from the first marker line on
FromFirstMarker(lines) ==
  IF MarkerPositions(lines) = {} THEN <<>>
  ELSE SubSeq(lines, KthMarker(lines, 1), Len(lines))

\* C22: the lines read before the first marker line are in no record: the
\* records emitted and, until the input closes, the record being accumulated
\* hold, in order, exactly the lines from the first marker on; an input without any marker line (an
\* empty one included) gives no record, no file, and resolves with
\* emailsExtracted = 0.
C22_LeadingLinesDiscarded ==
  /\ FlattenLines(mEmitted) \o (IF rlState = "closed" THEN <<>> ELSE currentEmailLines)
       = FromFirstMarker(Delivered)
  /\ MarkerPositions(mInput) = {}
       => /\ mEmitted = <<>> /\ DOMAIN mFiles = {} /\ mStats = 0
          /\ (rlState = "closed" /\ ~rlError) => mPromise = "resolved"

\* an input of lines without a marker, read to its end and resolved with
\* nothing written
C22_Witness ==
  /\ rlState = "closed" /\ ~rlError /\ mPromise = "resolved"
  /\ Len(mInput) >= 2 /\ mPos = Len(mInput)
  /\ MarkerPositions(mInput) = {}
  /\ mInput[1] # <<>>
  /\ mStats = 0 /\ DOMAIN mFiles = {}

\* C31: every record is handed to processEmail under its number, in the
\* order of the marker lines, at the 'line' event of the next marker line,
\* or, for the last record, at the 'close' event; so all but the last record
\* whose marker has been delivered are already emitted; and the buffer never
\* holds more than one marker line.
C31_RecordsSerializedInOrder ==
  LET n == Cardinality(MarkerPositions(Delivered))
  IN  /\ \A k \in 1..Len(mEmitted) :
           /\ mEmitted[k].num = k
           /\ mEmitted[k].lines = ExpectedRecord(Delivered, k)
           /\ IF k < n
              THEN mEmitted[k].at + 1 = KthMarker(Delivered, k + 1)
              ELSE rlState = "closed" /\ mEmitted[k].at = mPos
      /\ n > 0 => Len(mEmitted) >= n - 1
      /\ Cardinality(MarkerPositions(currentEmailLines)) <= 1

\* a record of two lines was handed over when the third line, a marker, was
\* consumed, before the fourth line was read; the second record went out at
\* the end of the input
C31_Witness ==
  /\ rlState = "closed" /\ ~rlError
  /\ mPos = 4
  /\ Len(mEmitted) = 2
  /\ mEmitted[1].at = 2 /\ Len(mEmitted[1].lines) = 2
  /\ mEmitted[2].at = 4 /\ Len(mEmitted[2].lines) = 2

\* the buffer and the flag of the splitter agree
SplitterState ==
  /\ ~inEmail <=> currentEmailLines = <<>>
  /\ inEmail => MarkerPositions(currentEmailLines) = {1}
  /\ \A k \in 1..Len(mEmitted) :
       mEmitted[k].lines # <<>> /\ HasFromPrefix(mEmitted[k].lines[1])

\* C32: the splitter is outside a message exactly when its buffer is empty;
\* inside a message the buffer starts with a marker line and holds no other;
\* every emitted record is non-empty and starts with a marker line; and once
\* inside a message the splitter stays inside.
C32_SplitterStateInvariant ==
  /\ []SplitterState
  /\ [][inEmail => inEmail']_vars

\* inside the second message, whose buffer holds its marker line and a
\* From: header line after it, the first message already emitted
C32_Witness ==
  /\ inEmail /\ rlState = "open"
  /\ Len(mEmitted) = 1
  /\ Len(currentEmailLines) = 2
  /\ currentEmailLines[2] = <<"F","r","o","m",":","b">>

\* the file name of record k, k below 10: the prefix, the number padded with
\* zeros to four digits, -email and the extension of the format
NumberedName(k, fmt) ==
  MboxFilePrefix \o <<"-","0","0","0">> \o <<DigitChars[k + 1]>>
    \o <<"-","e","m","a","i","l",".">> \o FormatExt(fmt)

\* C33: the k-th record handed to processEmail carries the number k and, when
\* its write succeeds, is in the file of that number directly in the output
\* directory, with its own content, whatever happened to the records before
\* it; the files of the output directory are those of the written records,
\* one each; and emailsExtracted is at most the number of records.
C33_RecordNumbering ==
  /\ \A k \in 1..Len(mEmitted) :
       /\ mEmitted[k].num = k
       /\ mEmitted[k].written =>
            /\ Append(MboxOutputDir, NumberedName(k, mFormat)) \in DOMAIN mFiles
            /\ mFiles[Append(MboxOutputDir, NumberedName(k, mFormat))]
                 = EmailFileContent(mEmitted[k].lines, mFormat)
  /\ DOMAIN mFiles =
       {Append(MboxOutputDir, NumberedName(k, mFormat)) :
          k \in {j \in 1..Len(mEmitted) : mEmitted[j].written}}
  /\ Cardinality(DOMAIN mFiles)
       = Cardinality({j \in 1..Len(mEmitted) : mEmitted[j].written})
  /\ mStats <= Len(mEmitted)

\* the first record failed to write, the second and third are in the files
\* numbered 2 and 3
C33_Witness ==
  /\ Len(mEmitted) = 3
  /\ ~mEmitted[1].written /\ mEmitted[2].written /\ mEmitted[3].written
  /\ DOMAIN mFiles = {Append(MboxOutputDir, NumberedName(2, mFormat)),
                      Append(MboxOutputDir, NumberedName(3, mFormat))}
  /\ mStats = 2

\* C36: once the promise has settled the call changes nothing: the promise
\* keeps its outcome, no file is written and the counter stays, whatever
\* event of the line source comes next.
C36_NothingAfterSettled ==
  [][mPromise # "pending" =>
       mPromise' = mPromise /\ mFiles' = mFiles /\ mStats' = mStats]_vars

Copies ==
  LET Copied(e) == e.op = "copy" /\ e.ok IN SelectSeq(pLog, Copied)

\* a name that ends, in any letter case, with the extension e after at least
\* one other character
HasExt(name, e) ==
  /\ Len(name) > Len(e)
  /\ ToLowerCase(SubSeq(name, Len(name) - Len(e) + 1, Len(name))) = e

IsEmlName(name) == HasExt(name, <<".","e","m","l">>)
IsVcfName(name) == HasExt(name, <<".","v","c","f">>)
IsIcsName(name) == HasExt(name, <<".","i","c","s">>)
IsOtherName(name) == ~IsEmlName(name) /\ ~IsVcfName(name) /\ ~IsIcsName(name)

\* the directory under the output directory with the same relative path as
\* directory n has under the temporary directory
RECURSIVE MirrorDir(_, _)
MirrorDir(tree, n) ==
  IF tree.parent[n] = 0 THEN OutputDir
  ELSE Append(MirrorDir(tree, tree.parent[n]), tree.names[n])

\* where the claim sends the file called name of directory n
ClaimedDest(tree, n, name) ==
  IF IsEmlName(name) THEN Append(MirrorDir(tree, n), name)
  ELSE IF IsVcfName(name)
       THEN MirrorDir(tree, n) \o << <<"c","o","n","t","a","c","t","s">>, name >>
  ELSE IF IsIcsName(name)
       THEN MirrorDir(tree, n) \o << <<"c","a","l","e","n","d","a","r">>, name >>
  ELSE Append(AttachmentDir, name)

\* all files of a tree as pairs <<directory, name>>
TreeFiles(tree) ==
  UNION { {<<n, tree.files[n][i]>> : i \in 1..Len(tree.files[n])} :
          n \in 1..Len(tree.parent) }

\* the number of entries of a sequence that satisfy a test
CountSeq(seq, Test(_)) == Len(SelectSeq(seq, Test))

\* C8: every file convertReadpstOutput has copied went from its place in the
\* converter's output to the destination its extension, compared without
\* regard to letter case, selects: .eml to the mirror of its directory, .vcf
\* to that directory's contacts, .ics to its calendar, anything else to the
\* attachment directory; emailsExtracted counts the .eml copies and
\* attachmentsExtracted the other copies, .vcf and .ics count nowhere; and a
\* call that returns has copied every file of the tree.
C8_DestinationByExtension ==
  pc \in {"convCalled", "convReturned", "convThrew"} =>
    LET EmlCopy(e) == IsEmlName(e.src[Len(e.src)])
        OtherCopy(e) == IsOtherName(e.src[Len(e.src)])
    IN  /\ \A k \in 1..Len(Copies) :
             \E f \in TreeFiles(tempTree) :
               /\ Copies[k].src = Append(TempPath(tempTree, f[1]), f[2])
               /\ Copies[k].path = ClaimedDest(tempTree, f[1], f[2])
               /\ Copies[k].path \in DOMAIN pFiles
        /\ pStats.emailsExtracted = CountSeq(Copies, EmlCopy)
        /\ pStats.attachmentsExtracted = CountSeq(Copies, OtherCopy)
        /\ pStats.foldersProcessed = 0
        /\ pc = "convReturned" =>
             \A f \in TreeFiles(tempTree) :
               \E k \in 1..Len(Copies) :
                 Copies[k].src = Append(TempPath(tempTree, f[1]), f[2])

\* a tree with exactly one .eml, one .vcf (in capitals), one .ics and one
\* .dat file, one of them in a subdirectory, has been reconciled: both
\* counters stand at one
C8_Witness ==
  /\ pc = "convReturned"
  /\ Cardinality(TreeFiles(tempTree)) = 4
  /\ \E f \in TreeFiles(tempTree) : IsEmlName(f[2])
  /\ \E f \in TreeFiles(tempTree) : f[2] = <<"b",".","V","C","F">> /\ f[1] > 1
  /\ \E f \in TreeFiles(tempTree) : IsIcsName(f[2])
  /\ \E f \in TreeFiles(tempTree) : f[2] = <<"d",".","d","a","t">>
  /\ pStats.emailsExtracted = 1
  /\ pStats.attachmentsExtracted = 1
  /\ MirrorDir(tempTree, 2) \o << <<"c","o","n","t","a","c","t","s">>,
                                  <<"b",".","V","C","F">> >> \in DOMAIN pFiles

\* the files of the output and attachment directories, the converter's own
\* temporary tree apart
ReconciledFiles == (DOMAIN pFiles) \ TempFilesOf(tempTree)

\* C9: after a reconciliation that returns, the output and attachment
\* directories hold as many files as the converter's output tree, whose names
\* are unique within each directory.
C9_NoFileLost ==
  pc = "convReturned" =>
    Cardinality(ReconciledFiles) = Cardinality(TreeFiles(tempTree))

\* C39: the reconciliation leaves the converter's output as it found it:
\* every directory of the temporary tree still exists and every file the
\* converter wrote is still there with the content the converter gave it.
C39_TempTreeUntouched ==
  tempTree # NoTempTree =>
    /\ TempDirsOf(tempTree) \subseteq pDirs
    /\ \A f \in TempFilesOf(tempTree) :
         f \in DOMAIN pFiles /\ pFiles[f] = <<"readpst", f>>

(***************************************************************************)
(* Claims about PSTExtractor.processPSTFolder                              *)
(***************************************************************************)
\* the depth of folder n, the root at 0
RECURSIVE DepthOf(_, _)
DepthOf(tree, n) == IF tree.parent[n] = 0 THEN 0 ELSE 1 + DepthOf(tree, tree.parent[n])

\* folder a is folder n or one of its ancestors
RECURSIVE IsAncestorOrSelf(_, _, _)
IsAncestorOrSelf(tree, a, n) ==
  \/ a = n
  \/ tree.parent[n] # 0 /\ IsAncestorOrSelf(tree, a, tree.parent[n])

\* neither the folder nor any folder below it holds an item
EmptySubtree(tree, n) ==
  \A d \in 1..Len(tree.parent) : IsAncestorOrSelf(tree, n, d) => tree.items[d] = <<>>

\* the folder lies within the depth limit, so the walker processes it
WithinDepth(tree, n) == maxDepth = -1 \/ DepthOf(tree, n) <= maxDepth

\* the output directory of folder n
RECURSIVE OutputPathOf(_, _)
OutputPathOf(tree, n) ==
  PathJoin(IF tree.parent[n] = 0 THEN OutputDir ELSE OutputPathOf(tree, tree.parent[n]),
           sanitizeFilename(tree.names[n]))

\* the walker has issued a directory creation on behalf of folder n
EnsuredFor(n) == \E k \in 1..Len(pLog) : pLog[k].op = "ensure" /\ pLog[k].node = n

\* C10: once the walk has returned, a processed folder with no item in it and
\* none below it had no directory created for it when skipEmpty is enabled,
\* and has its (empty) output directory when skipEmpty is disabled.
C10_SkipEmptyPolicy ==
  pc = "returned" =>
    \A n \in 1..Len(pTree.parent) :
      EmptySubtree(pTree, n) /\ WithinDepth(pTree, n) =>
        IF skipEmpty THEN ~EnsuredFor(n)
        ELSE OutputPathOf(pTree, n) \in pDirs

\* folder n holds at least one item the walker keeps as mail
HasMail(tree, n) == SelectMail(tree.items[n]) # <<>>

\* folder d lies strictly below folder n
IsBelow(tree, n, d) == d # n /\ IsAncestorOrSelf(tree, n, d)

\* the last call the walker has made on the file system
LastCall == pLog'[Len(pLog')]

\* C11: with skipEmpty enabled, once the walk has returned every processed
\* folder without mail of its own but with mail in a processed folder below
\* it has its output directory; and at every successful write of a message
\* file the directory that holds it and all directories above it exist.
C11_NoUnreachableContent ==
  /\ [](pc = "returned" /\ skipEmpty =>
          \A n \in 1..Len(pTree.parent) :
            /\ WithinDepth(pTree, n) /\ ~HasMail(pTree, n)
            /\ \E d \in 1..Len(pTree.parent) :
                 IsBelow(pTree, n, d) /\ WithinDepth(pTree, d) /\ HasMail(pTree, d)
            => OutputPathOf(pTree, n) \in pDirs)
  /\ [][Len(pLog') > Len(pLog) /\ LastCall.op = "write" /\ LastCall.ok =>
          /\ Prefixes(Dirname(LastCall.path)) \subseteq pDirs
          /\ LastCall.path \in DOMAIN pFiles']_vars

\* skipEmpty is enabled, the root and its subfolder hold no mail, the folder
\* below them holds one, and its message file has been written
C11_Witness ==
  /\ pc = "returned" /\ skipEmpty
  /\ pTree.parent = <<0, 1, 2>>
  /\ ~HasMail(pTree, 1) /\ ~HasMail(pTree, 2) /\ HasMail(pTree, 3)
  /\ pStats.emailsExtracted >= 1
  /\ OutputPathOf(pTree, 2) \in pDirs

\* the folders the depth limit lets the walker process
ProcessedFolders(tree) == {n \in 1..Len(tree.parent) : WithinDepth(tree, n)}

\* C12: no directory is created and no file written for a folder deeper than
\* maxDepth, no such folder is entered past the depth test, and a walk that
\* returns has counted exactly the folders within the limit: all of them when
\* maxDepth is -1.
C12_DepthLimit ==
  /\ \A k \in 1..Len(pLog) : WithinDepth(pTree, pLog[k].node)
  /\ \A i \in 1..Len(pStack) :
       pStack[i].phase # "enter" => WithinDepth(pTree, pStack[i].node)
  /\ \A i \in 1..Len(pStack) : pStack[i].depth = DepthOf(pTree, pStack[i].node)
  /\ pStats.foldersProcessed <= Cardinality(ProcessedFolders(pTree))
  /\ pc = "returned" =>
       /\ pStats.foldersProcessed = Cardinality(ProcessedFolders(pTree))
       /\ maxDepth = -1 => pStats.foldersProcessed = Len(pTree.parent)

\* maxDepth is 0, the subfolder of the root holds mail, and the walk has
\* returned with the root alone processed and nothing written
C12_Witness ==
  /\ pc = "returned" /\ maxDepth = 0
  /\ Len(pTree.parent) >= 2 /\ HasMail(pTree, 2)
  /\ pStats.foldersProcessed = 1
  /\ pStats.emailsExtracted = 0

\* the items of a folder the walker does not keep as mail
NonMail(tree, n) ==
  LET Other(item) == ~IsMail(item) IN SelectSeq(tree.items[n], Other)

\* the files of a directory
FilesIn(dir) == {q \in DOMAIN pFiles : Dirname(q) = dir}

\* C13: once the walk has returned, every processed folder holds, in the
\* contacts and calendar subdirectories of its output directory, one file for
\* each of its contact, appointment and task items, and a folder with such
\* items has its output directory.
C13_ContactsAndCalendarWritten ==
  pc = "returned" =>
    \A n \in ProcessedFolders(pTree) :
      NonMail(pTree, n) # <<>> =>
        /\ OutputPathOf(pTree, n) \in pDirs
        /\ Cardinality(FilesIn(Append(OutputPathOf(pTree, n), <<"c","o","n","t","a","c","t","s">>))
                       \cup FilesIn(Append(OutputPathOf(pTree, n), <<"c","a","l","e","n","d","a","r">>)))
             = Len(NonMail(pTree, n))


\* folder n or a folder below it, all within the depth limit on the way down,
\* holds mail
RECURSIVE HasContent(_, _)
HasContent(tree, n) ==
  /\ WithinDepth(tree, n)
  /\ \/ HasMail(tree, n)
     \/ \E c \in 1..Len(tree.parent) : tree.parent[c] = n /\ HasContent(tree, c)

\* the path is the directory or lies below it
Inside(dir, path) == Len(path) >= Len(dir) /\ SubSeq(path, 1, Len(dir)) = dir

\* C38: every directory the walker creates and every message file it writes
\* lies inside the output directory, and every attachment file inside the
\* attachment directory, whatever the display names of the folders.
C38_OutputContained ==
  \A i \in 1..Len(pLog) :
    /\ pLog[i].op \in {"ensure", "write"} => Inside(OutputDir, pLog[i].path)
    /\ pLog[i].op = "attach" => Inside(AttachmentDir, pLog[i].path)

\* the subfolders of an activation record whose calls have returned
ReturnedSubFolders(fr) ==
  LET subs == SubFolders(pTree, fr.node)
  IN  {subs[j] : j \in {i \in 1..Len(subs) : i < fr.ci}}

C14_CountersMatchWrites ==
  /\ mStats = Cardinality({k \in 1..Len(mEmitted) : mEmitted[k].written})
  /\ pc \notin {"idle", "ready"} =>
       LET MailWritten(e) ==
             \/ e.op = "write" /\ e.ok
             \/ e.op = "copy" /\ e.ok /\ IsEmlName(e.src[Len(e.src)])
           AttachmentWritten(e) ==
             \/ e.op = "attach" /\ e.ok
             \/ e.op = "copy" /\ e.ok /\ IsOtherName(e.src[Len(e.src)])
       IN  /\ pStats.emailsExtracted = CountSeq(pLog, MailWritten)
           /\ pStats.attachmentsExtracted = CountSeq(pLog, AttachmentWritten)
  /\ \A kind \in OlmKinds :
       oStats[kind] =
         Cardinality({k \in 1..Len(oWrites) : oWrites[k].kind = kind /\ oWrites[k].ok})

\* the OLM extractor has failed to write one message and written the next:
\* one message is counted
C14_Witness ==
  /\ Len(oWrites) = 2
  /\ oWrites[1] = [kind |-> "email", ok |-> FALSE]
  /\ oWrites[2] = [kind |-> "email", ok |-> TRUE]
  /\ oStats["email"] = 1

\* every counter of the three extractors is at least what it was
NoCounterFalls ==
  /\ mStats' >= mStats
  /\ pStats'.foldersProcessed >= pStats.foldersProcessed
  /\ pStats'.emailsExtracted >= pStats.emailsExtracted
  /\ pStats'.attachmentsExtracted >= pStats.attachmentsExtracted
  /\ \A kind \in OlmKinds : oStats'[kind] >= oStats[kind]

\* C29: from the reset at the start of a call to the call's completion no
\* step lowers a counter: the only step that may lower one is the reset
\* itself, taken by a PST call that has not started yet, and every later
\* step, those of the in-process parser after the external tool has failed
\* included, leaves each counter where it was or raises it.
C29_CountersOnlyIncrease == [][pc # "ready" => NoCounterFalls]_vars

\* the converter has failed after its output was partly written, the
\* in-process parser has taken over, and the call has resolved with a folder
\* and a message counted
C29_Witness ==
  /\ convPromise = "rejected"
  /\ pc = "resolved"
  /\ pStats.foldersProcessed >= 1
  /\ pStats.emailsExtracted >= 1
  /\ pStats.attachmentsExtracted >= 1

\* C37: of two calls of extract on one MboxExtractor whose events
\* interleave, each resolves with the number of records written for its own
\* container, and the two calls resolve with two different statistics
\* objects.
C37_OwnStatisticsPerCall ==
  /\ \A c \in DOMAIN vCalls :
       vCalls[c].state = "resolved" => vCalls[c].count = vCalls[c].written
  /\ \A c, d \in DOMAIN vCalls :
       (c # d /\ vCalls[c].state = "resolved" /\ vCalls[d].state = "resolved")
         => vCalls[c].ref # vCalls[d].ref

\* C15: at the start of every call the counters stand at 0, so the running
\* call's object counts the artifacts of that call alone; the object a
\* resolved call returned still shows the count of that call, whatever calls
\* came later; and each call returned an object of its own.
C15_StatsResetPerCall ==
  /\ xPhase = "running" => xHeap[xThis].emailsExtracted = xWrites
  /\ \A i \in 1..Len(xReturned) :
       xHeap[xReturned[i].ref].emailsExtracted = xReturned[i].written
  /\ \A i, j \in 1..Len(xReturned) : i # j => xReturned[i].ref # xReturned[j].ref

\* two calls have returned, with two artifacts and one, and a third call has
\* begun with its counter at 0
C15_Witness ==
  /\ Len(xReturned) = 2
  /\ xReturned[1].written = 2 /\ xReturned[2].written = 1
  /\ xPhase = "running" /\ xCalls = 3 /\ xWrites = 0
  /\ xHeap[1].emailsExtracted = 10

(***************************************************************************)
(* Claims about EmailExtractor.detectFileType and EmailExtractor.extract   *)
(***************************************************************************)
\* the lower-cased name ends in one of the four recognized extensions
KindByName(name) ==
  IF HasExt(name, <<".","p","s","t">>) THEN "pst"
  ELSE IF HasExt(name, <<".","o","s","t">>) THEN "ost"
  ELSE IF HasExt(name, <<".","m","b","o","x">>) THEN "mbox"
  ELSE IF HasExt(name, <<".","o","l","m">>) THEN "olm"
  ELSE "none"

\* a call of detectFileType that has ended
Detected == iEntry = "detectFileType" /\ iPc \in {"returned", "threw"}

ContentRead == \E i \in 1..Len(iLog) : iLog[i] = "readFileSync"

Unsupported == iPc = "threw" /\ iResult.error = "Unsupported file type"

\* C17: for an existing path whose lower-cased extension is .pst, .ost,
\* .mbox or .olm, detectFileType returns the kind of that extension whatever
\* the size and the content, and touches the file system only to test that
\* the path exists and to read its size.
C17_ExtensionDecides ==
  (Detected /\ iFile.exists /\ KindByName(iFile.name) # "none")
    => /\ iPc = "returned"
       /\ iResult = KindByName(iFile.name)
       /\ iLog = <<"existsSync", "statSync">>

\* a file above the threshold whose first bytes are 'From ', named F.PST
C17_Witness ==
  /\ Detected /\ iPc = "returned" /\ iResult = "pst"
  /\ iFile.name = <<"F",".","P","S","T">>
  /\ iFile.size = Size(2, 1)
  /\ iFile.bytes = PadToEight(<<70, 114, 111, 109, 32>>)

HasPstMagic(bytes) == Len(bytes) >= 4 /\ SubSeq(bytes, 1, 4) = <<33, 66, 68, 78>>

\* the bytes begin with the ASCII codes of 'F', 'r', 'o', 'm', ' '
HasFromBytes(bytes) ==
  Len(bytes) >= 5 /\ SubSeq(bytes, 1, 5) = <<70, 114, 111, 109, 32>>

\* C19: detectFileType fails with the not-found error, after the existence
\* test alone, for a missing path; for an existing file with an unrecognized
\* extension below 2 GiB it returns 'pst' when the leading bytes are
\* 21 42 44 4e, else 'mbox' when they are the ASCII text 'From ', else (also
\* when they cannot be read) fails with the unsupported-type error naming
\* the extension.
C19_TotalDecision ==
  Detected =>
    IF ~iFile.exists
    THEN iPc = "threw" /\ iResult = NotFoundError /\ iLog = <<"existsSync">>
    ELSE (KindByName(iFile.name) = "none" /\ SizeGreater(Threshold, iFile.size))
           => IF iFile.readable /\ HasPstMagic(iFile.bytes)
              THEN iPc = "returned" /\ iResult = "pst"
              ELSE IF iFile.readable /\ HasFromBytes(iFile.bytes)
              THEN iPc = "returned" /\ iResult = "mbox"
              ELSE /\ Unsupported
                   /\ iResult.ext = ToLowerCase(Extname(iFile.name))

\* the call of extract failed for want of an attachment directory
MissingAttachmentDir == iPc = "threw" /\ iResult = AttachmentDirError

\* C20, as stated: when extract fails with the 'Attachment directory is
\* required' error, nothing has touched the file system and no extractor
\* has been made.
C20_BeforeAnyIO == MissingAttachmentDir => iLog = <<>>

\* C20, amended: extract called without an attachment directory for a
\* pst/ost container fails with the 'Attachment directory is required'
\* error; before it the file system has only been read by the type
\* detection (existence test, size, and the leading bytes when the type
\* comes from the content), nothing has been written and no extractor has
\* been made.
C20_BeforeAnyExtraction ==
  /\ (iEntry = "extract" /\ iPc # "called" /\ iFile.exists
        /\ KindByName(iFile.name) \in {"pst", "ost"}
        /\ iAttachmentDir \in {"null", "empty"})
       => MissingAttachmentDir
  /\ MissingAttachmentDir
       => /\ SubSeq(iLog, 1, 2) = <<"existsSync", "statSync">>
          /\ Len(iLog) <= 3
          /\ Len(iLog) = 3 => iLog[3] = "readFileSync"

\* the error raised for a container recognized as pst by its leading bytes
C20_Witness ==
  /\ MissingAttachmentDir
  /\ KindByName(iFile.name) = "none"
  /\ iLog = <<"existsSync", "statSync", "readFileSync">>

(***************************************************************************)
(* Claims about OLMExtractor.extract                                       *)
(***************************************************************************)
\* the statement has run before position i of the history
RanBefore(statement, i) == \E j \in 1..(i - 1) : oLog[j] = statement

\* what extract does before it starts the reader
Preparation ==
  {"resetStats", "ensureDirectoryExistence", "setEmailCallback",
   "setContactCallback", "setAppointmentCallback", "setTaskCallback",
   "setNoteCallback"}

\* C25: extract resets the statistics, ensures the output directory and
\* registers the five callbacks before it starts the reader; every item is
\* delivered after all of that; and the promise is resolved only once the
\* read has completed, as the last thing that happens.
C25_SetupBeforeRead ==
  /\ \A i \in 1..Len(oLog) :
       /\ oLog[i] = "readOLMFile" => \A st \in Preparation : RanBefore(st, i)
       /\ oLog[i] = "item" =>
            \A st \in Preparation \cup {"readOLMFile"} : RanBefore(st, i)
  /\ oPromise = "resolved" =>
       /\ oState = "done" /\ oItems = <<>>
       /\ oLog[Len(oLog)] = "resolve"
       /\ RanBefore("readOLMFile", Len(oLog))

\* an archive of three items read to its end and resolved
C25_Witness ==
  /\ oPromise = "resolved"
  /\ Len(oWrites) = 3
  /\ Cardinality({i \in 1..Len(oLog) : oLog[i] = "item"}) = 3
  /\ oRegistered = OlmKinds

\* C26: a failure of the reader rejects the promise with the reader's error
\* and the promise is rejected for no item's sake; a callback whose
\* directory creation or write throws leaves the reader reading and the
\* promise as it was and increments no counter, and a callback that succeeds
\* after it increments the counter of its kind.
C26_ItemFailureContained ==
  /\ [](oError = "reader" => oPromise = "rejected")
  /\ [](oPromise = "rejected" => oError \in {"reader", "ensureDirectoryExistence"})
  /\ [][Len(oWrites') > Len(oWrites) =>
          LET w == oWrites'[Len(oWrites')]
          IN  /\ oState' = oState /\ oPromise' = oPromise /\ oError' = oError
              /\ oStats' = IF w.ok THEN [oStats EXCEPT ![w.kind] = @ + 1]
                           ELSE oStats]_vars

\* a message fails to be written, the contact after it is written and
\* counted, then the reader fails and the promise is rejected
C26_Witness ==
  /\ Len(oWrites) = 2
  /\ oWrites[1] = [kind |-> "email", ok |-> FALSE]
  /\ oWrites[2] = [kind |-> "contact", ok |-> TRUE]
  /\ oStats["email"] = 0 /\ oStats["contact"] = 1
  /\ oState = "failed" /\ oError = "reader" /\ oPromise = "rejected"

(***************************************************************************)
(* Claims about the command line                                           *)
(***************************************************************************)
\* the positions of the history at which a container was started
Starts == {i \in 1..Len(kLog) : kLog[i].ev = "start"}

\* C27: the containers of one invocation are started in input order, each
\* only after the extract call of the one before it has resolved; at most
\* one extraction is in progress at any time; and a fatal error is the last
\* thing that happens: no container is started after it and main exits.
C27_OneContainerAtATime ==
  /\ Cardinality(kRunning) <= 1
  /\ \A i \in Starts :
       /\ kLog[i].file = Cardinality({j \in Starts : j <= i})
       /\ kLog[i].file > 1 =>
            \E j \in 1..(i - 1) :
              kLog[j].ev = "resolve" /\ kLog[j].file = kLog[i].file - 1
  /\ \A i \in 1..Len(kLog) :
       kLog[i].ev = "fatal" => i = Len(kLog) /\ kExit = "exit1" /\ kRunning = {}

\* three containers: the first is extracted, the second fails, the third is
\* never started
C27_Witness ==
  /\ Len(kFiles) = 3 /\ kExit = "exit1"
  /\ Len(kLog) = 4
  /\ kLog[1].ev = "start" /\ kLog[2].ev = "resolve"
  /\ kLog[3].ev = "start" /\ kLog[3].file = 2
  /\ kLog[4].ev = "fatal" /\ kLog[4].file = 2

(***************************************************************************)
(* Claims about the options of EmailExtractor                              *)
(***************************************************************************)
\* the value of option k by priority: the override of the call, else the
\* option given to the instance, else the built-in default
ByPriority(k) ==
  IF k \in DOMAIN eOverride THEN eOverride[k]
  ELSE IF k \in DOMAIN eGiven THEN eGiven[k]
  ELSE CASE k = "verbose" -> "false" [] k = "format" -> "eml"
         [] k = "maxDepth" -> "-1" [] k = "skipEmpty" -> "true"

\* C24: the options an extraction call runs with are, for each of verbose,
\* format, maxDepth and skipEmpty, the per-call override if there is one,
\* else the option of the EmailExtractor instance, else the built-in default;
\* the options of the instance stay what the constructor made them, so a
\* call without overrides runs with the instance options.
C24_OptionsMerge ==
  /\ eCalls > 0 => \A k \in {"verbose", "format", "maxDepth", "skipEmpty"} :
                     eResolved[k] = ByPriority(k)
  /\ \A k \in {"verbose", "format", "maxDepth", "skipEmpty"} :
       eOptions[k] = IF k \in DOMAIN eGiven THEN eGiven[k] ELSE DefaultOptions[k]
  /\ (eCalls > 0 /\ eOverride = <<>>) => eResolved = eOptions

\* the second call on an instance made with format 'txt', without overrides,
\* for an MBOX container
C24_Witness ==
  /\ eCalls = 2 /\ eOverride = <<>> /\ eKind = "mbox"
  /\ "format" \in DOMAIN eGiven /\ eGiven["format"] = "txt"
  /\ "maxDepth" \notin DOMAIN eGiven
  /\ eResolved["format"] = "txt" /\ eResolved["maxDepth"] = "-1"

(***************************************************************************)
(* Claims about the helpers shared by the extractors                       *)
(***************************************************************************)
RECURSIVE ExpectedName(_, _)
\* the name read character by character from position i on: a forbidden
\* character gives '_', a whitespace character gives '_' when it starts a
\* run and nothing otherwise, any other character gives itself
ExpectedName(s, i) ==
  IF i > Len(s) THEN <<>>
  ELSE (IF s[i] \in {"<", ">", ":", "\"", "/", "\\", "|", "?", "*"} THEN <<"_">>
        ELSE IF s[i] \in {" ", "\t", "\n", "\r"}
             THEN (IF i > 1 /\ s[i - 1] \in {" ", "\t", "\n", "\r"} THEN <<>> ELSE <<"_">>)
        ELSE <<s[i]>>)
       \o ExpectedName(s, i + 1)

\* C23: the result of sanitizeFilename is never empty and holds none of
\* < > : " / \ | ? * and no whitespace; each forbidden character has become
\* one '_', each maximal run of whitespace one '_', every other character is
\* kept in place; an empty or absent name gives 'unknown'; sanitizing the
\* result gives the result again.
C23_SanitizeFilename ==
  /\ sPc \in {"once", "twice"} =>
       /\ sResult # <<>> /\ sResult # Null
       /\ \A i \in 1..Len(sResult) :
            sResult[i] \notin {"<", ">", ":", "\"", "/", "\\", "|", "?", "*",
                               " ", "\t", "\n", "\r"}
       /\ sResult = IF sName = Null \/ sName = <<>>
                    THEN <<"u","n","k","n","o","w","n">>
                    ELSE ExpectedName(sName, 1)
  /\ sPc = "twice" => sAgain = sResult

\* a name with a forbidden character and a run of two whitespace characters,
\* sanitized twice
C23_Witness ==
  /\ sPc = "twice"
  /\ sName = <<"/", " ", "\t">>
  /\ sResult = <<"_", "_">>
  /\ sAgain = <<"_", "_">>

\* the calls of ensureDirectoryExistence that returned
ReturnedCalls == {n \in 1..Len(dLog) : ~dLog[n].raised}

WriteFailed ==
  \E k \in 1..Len(pLog) : pLog[k].op \in {"write", "attach"} /\ ~pLog[k].ok

\* the in-process parser has been run on the container, in the given mode
Parsed(mode) == \E k \in 1..Len(pLog) : pLog[k].op = "parse" /\ pLog[k].mode = mode

\* C3: a failed write of a message or an attachment does not propagate out
\* of extract: the call is not rejected by it, and once the call has resolved
\* every folder of the container has been processed.
C3_WriteFailureRecovered ==
  WriteFailed =>
    /\ pc \in {"walking", "resolved"}
    /\ pError = "none"
    /\ pc = "resolved" => pStats.foldersProcessed = Len(pTree.parent)

\* the external tool has failed: the probe answered unavailable, or the
\* converter exited with a failure code or could not be spawned
ToolFailed == probeResult = "false" \/ convPromise = "rejected"

\* C4: on a container above the threshold, once the probe has answered
\* unavailable or the converter has failed, the in-process parser has been
\* run on the container's path in the same call and, where it succeeded, the
\* walker on its root; the call rejects only with an error of the in-process
\* part, never with the tool's failure.
C4_FallbackOnToolFailure ==
  /\ ToolFailed =>
       /\ fileSize = Size(2, 1)
       /\ Parsed("path")
       /\ pc \in {"walking", "resolved", "rejected"}
       /\ pc = "walking" => pTree # NoTree
       /\ pc = "resolved" => pTree # NoTree /\ pStats.foldersProcessed >= 1
       /\ pc = "rejected" => pError \in {"parse", "write"}
  /\ pError \in {"none", "stat", "parse", "write", "copy"}

\* the converter was spawned and exited with a failure code, and the call
\* has resolved with a message extracted by the walker
C4_Witness ==
  /\ convSeen # <<>> /\ convSeen[1] = Event("close", 1)
  /\ convPromise = "rejected"
  /\ pc = "resolved"
  /\ pStats.emailsExtracted = 1

\* the converter process has exited
ConverterExited == Seen(convSeen, "close")

\* the promise of extract has resolved or rejected
ExtractSettled == pc \in {"resolved", "rejected"}

\* C34: once the converter has exited, a call of extract that has not settled
\* yet still has a step to take: it never stands with its promise pending
\* and nothing left to run, also not after a reconciliation that threw.
C34_SettlesOnceExited == (ConverterExited /\ ~ExtractSettled) => ENABLED PstNext

\* the call has made a step of that kind
Logged(op) == \E i \in 1..Len(pLog) : pLog[i].op = op

\* C35: the converter is spawned only after the probe has answered true;
\* the reconciliation of its output begins only after it has closed with
\* code 0; the in-process parser and walker run only when the converter was
\* not spawned or its promise was rejected; and no call has both copied
\* converter output and run the in-process parser, whatever the order of the
\* converter's 'error' and 'close' events.
C35_StrategiesExclusive ==
  /\ convSpawned => probeResult = "true"
  /\ (pc = "reconciling" \/ Logged("copy"))
       => \E i \in 1..Len(convSeen) : convSeen[i] = Event("close", 0)
  /\ (Logged("parse") \/ pc = "walking")
       => ~convSpawned \/ convPromise = "rejected"
  /\ ~(Logged("copy") /\ Logged("parse"))

\* the converter has emitted 'error' and then 'close' with a failure code,
\* and the call has resolved through the walker with nothing copied
C35_Witness ==
  /\ convSeen = <<Event("error", NoCode), Event("close", 1)>>
  /\ pc = "resolved"
  /\ pStats.foldersProcessed >= 1
  /\ ~Logged("copy")

\* the call has got past fs.statSync
PastStat == pc # "ready" /\ pError # "stat"

\* the external-tool path: probed, and with the converter at hand converted
\* without the in-process parser unless the converter fails
ExternalChosen ==
  /\ probeSpawned
  /\ probeResult = "true" => convSpawned
  /\ probeResult = "true" /\ convPromise # "rejected" => ~Parsed("path") /\ ~Parsed("buffer")

\* the in-process path: no probe, no converter, the container read into a
\* buffer
InProcessChosen ==
  /\ ~probeSpawned /\ ~convSpawned
  /\ Parsed("buffer")

C6_ProbeSettlesOnce ==
  /\ [](/\ probeResult \in {"pending", "true", "false"}
        /\ probeSeen = <<>> => probeResult = "pending"
        /\ probeSeen # <<>> =>
             probeResult = (IF probeSeen[1] = Event("close", 0) THEN "true" ELSE "false")
        /\ Seen(probeSeen, "timeout") <=> probeKilled)
  /\ [][probeResult # "pending" => probeResult' = probeResult]_vars
  /\ probeSpawned ~> probeResult # "pending"

\* the probe closed with code 0 first, then its timer fired and killed it:
\* the result is still true
C6_Witness ==
  /\ Len(probeSeen) = 2
  /\ probeSeen[1] = Event("close", 0)
  /\ probeSeen[2] = Event("timeout", NoCode)
  /\ probeKilled
  /\ probeResult = "true"

\* C7: for a container of at most 2 * 1024 * 1024 * 1024 bytes no readpst
\* process is ever spawned, neither the probe nor the converter, and the
\* in-process parser is what runs; a readpst process is spawned only for a
\* larger container.
C7_SmallNeverSpawns ==
  /\ fileSize \in {Size(1, GiB - 1), Size(2, 0)} =>
       /\ ~probeSpawned /\ ~convSpawned
       /\ probeSeen = <<>> /\ convSeen = <<>>
       /\ PastStat => Parsed("buffer")
       /\ pc = "resolved" => pStats.foldersProcessed >= 1
  /\ probeSpawned \/ convSpawned => fileSize.hi >= 2 /\ fileSize.lo >= 1

\* a container of 2 GiB - 1 has been walked in process and nothing spawned
C7_Witness ==
  /\ fileSize = Size(1, GiB - 1)
  /\ pc = "resolved"
  /\ pStats.foldersProcessed = 2
  /\ ~probeSpawned /\ ~convSpawned

InitMbox == MboxInit /\ PstIdle /\ OlmIdle /\ CallsIdle /\ IndexIdle /\ UtilIdle /\ CfgIdle /\ CliIdle /\ OverlapIdle

SpecMbox == InitMbox /\ [][MboxNext]_vars

\* a call convertReadpstOutput(tempDir, outputDir, attachmentDir) on a fresh
\* extractor, the converter's output and the output directories in place
ConvInit ==
  /\ skipEmpty = TRUE /\ maxDepth = -1 /\ pFormat = "eml" /\ fileSize = [hi |-> 0, lo |-> 0]
  /\ pTree = NoTree /\ pStack = <<>> /\ pRet = FALSE
  /\ tempTree \in TempTrees(TempShapes)
  /\ pDirs = Prefixes(OutputDir) \cup Prefixes(AttachmentDir) \cup TempDirsOf(tempTree)
  /\ pFiles = WithTempTree(<< >>, tempTree)
  /\ pStats = ZeroStats
  /\ pLog = <<>>
  /\ pc = "convCalled"
  /\ pError = "none"
  /\ ProbeIdle
  /\ convSpawned = FALSE /\ convSeen = <<>> /\ convPromise = "pending"
  /\ cStack = <<[entries |-> ReadDir(tempTree, 1), srcDir |-> TempDir, outDir |-> OutputDir]>>

InitConv == ConvInit /\ MboxIdle /\ OlmIdle /\ CallsIdle /\ IndexIdle /\ UtilIdle /\ CfgIdle /\ CliIdle /\ OverlapIdle

SpecConv == InitConv /\ [][ConvNext]_vars

InitConvNested == ConvNestedInit /\ MboxIdle /\ OlmIdle /\ CallsIdle /\ IndexIdle /\ UtilIdle /\ CfgIdle /\ CliIdle /\ OverlapIdle

SpecConvNested == InitConvNested /\ [][ConvNext]_vars

InitPst == ExtractInit /\ MboxIdle /\ OlmIdle /\ CallsIdle /\ IndexIdle /\ UtilIdle /\ CfgIdle /\ CliIdle /\ OverlapIdle

SpecPst == InitPst /\ [][PstNext]_vars

\* the timer of the probe fires unless the event loop never gets to it
SpecPstFair == InitPst /\ [][PstNext]_vars /\ WF_vars(ProbeTimeout)

InitOlm == OlmInit /\ MboxIdle /\ PstIdle /\ CallsIdle /\ IndexIdle /\ UtilIdle /\ CfgIdle /\ CliIdle /\ OverlapIdle

InitCalls == CallsInit /\ MboxIdle /\ PstIdle /\ OlmIdle /\ IndexIdle /\ UtilIdle /\ CfgIdle /\ CliIdle /\ OverlapIdle

SpecCalls == InitCalls /\ [][CallsNext]_vars

InitIndex == IndexInit /\ MboxIdle /\ PstIdle /\ OlmIdle /\ CallsIdle /\ UtilIdle /\ CfgIdle /\ CliIdle /\ OverlapIdle

SpecIndex == InitIndex /\ [][IndexNext]_vars

\* one call of one of the three extractors
InitAny == InitMbox \/ InitPst \/ InitOlm

AnyNext == MboxNext \/ PstNext \/ OlmNext

SpecAny == InitAny /\ [][AnyNext]_vars

SpecOlm == InitOlm /\ [][OlmNext]_vars

InitUtil == SanitizeInit /\ DirIdle /\ MboxIdle /\ PstIdle /\ OlmIdle /\ CallsIdle /\ IndexIdle /\ CfgIdle /\ CliIdle /\ OverlapIdle

SpecSanitize == InitUtil /\ [][SanitizeNext]_vars

InitConfig == ConfigInit /\ MboxIdle /\ PstIdle /\ OlmIdle /\ CallsIdle /\ IndexIdle /\ UtilIdle /\ CliIdle /\ OverlapIdle

SpecConfig == InitConfig /\ [][ConfigNext]_vars

InitCli == CliInit /\ MboxIdle /\ PstIdle /\ OlmIdle /\ CallsIdle /\ IndexIdle /\ UtilIdle /\ CfgIdle /\ OverlapIdle

SpecCli == InitCli /\ [][CliNext]_vars

InitOverlap == OverlapInit /\ MboxIdle /\ PstIdle /\ OlmIdle /\ CallsIdle /\ IndexIdle /\ UtilIdle /\ CfgIdle /\ CliIdle

SpecOverlap == InitOverlap /\ [][OverlapNext]_vars

InitEnsure == EnsureInit /\ SanitizeIdle /\ MboxIdle /\ PstIdle /\ OlmIdle /\ CallsIdle /\ IndexIdle /\ CfgIdle /\ CliIdle /\ OverlapIdle

SpecEnsure == InitEnsure /\ [][EnsureNext]_vars

InitWalk == WalkInit /\ MboxIdle /\ OlmIdle /\ CallsIdle /\ IndexIdle /\ UtilIdle /\ CfgIdle /\ CliIdle /\ OverlapIdle

SpecWalk == InitWalk /\ [][WalkNext]_vars

InitWalkDots == WalkDotsInit /\ MboxIdle /\ OlmIdle /\ CallsIdle /\ IndexIdle /\ UtilIdle /\ CfgIdle /\ CliIdle /\ OverlapIdle

SpecWalkDots == InitWalkDots /\ [][WalkNext]_vars
=============================================================================
